---- MODULE Spec2Model ----
(***************************************************************************)
(* Model of the MCP Excel service (src/mcp-server/server.py, config.py):   *)
(* the date/value normalizer, the row lookup-and-update engine             *)
(* (_update_row_by_lookup_impl), and the tools excel.updateRowByLookup and *)
(* excel.logTrades driving it against a Workbook Range Store.              *)
(*                                                                         *)
(* Text is modelled as a sequence of one-character strings, so that        *)
(* strip / upper / strptime / str() / float() are computed on characters.  *)
(* A JSON value is a tagged record (null, text, int, float, bool).         *)
(***************************************************************************)
EXTENDS Integers, Sequences, FiniteSets, TLC

(***************************************************************************)
(* Characters and text                                                     *)
(***************************************************************************)
Digit == {"0", "1", "2", "3", "4", "5", "6", "7", "8", "9"}

DigitVal(c) ==
  CASE c = "0" -> 0 [] c = "1" -> 1 [] c = "2" -> 2 [] c = "3" -> 3
    [] c = "4" -> 4 [] c = "5" -> 5 [] c = "6" -> 6 [] c = "7" -> 7
    [] c = "8" -> 8 [] c = "9" -> 9

DigitChar(n) ==
  CASE n = 0 -> "0" [] n = 1 -> "1" [] n = 2 -> "2" [] n = 3 -> "3"
    [] n = 4 -> "4" [] n = 5 -> "5" [] n = 6 -> "6" [] n = 7 -> "7"
    [] n = 8 -> "8" [] n = 9 -> "9"

\* str.isspace for the characters the inputs use
IsSpace(c) == c \in {" ", "\t"}

RECURSIVE LStrip(_)
LStrip(s) == IF s # <<>> /\ IsSpace(Head(s)) THEN LStrip(Tail(s)) ELSE s

RECURSIVE RStrip(_)
RStrip(s) ==
  IF s # <<>> /\ IsSpace(s[Len(s)]) THEN RStrip(SubSeq(s, 1, Len(s) - 1)) ELSE s

\* str.strip()
Strip(s) == RStrip(LStrip(s))

LowerLetters ==
  <<"a", "b", "c", "d", "e", "f", "g", "h", "i", "j", "k", "l", "m",
    "n", "o", "p", "q", "r", "s", "t", "u", "v", "w", "x", "y", "z">>

UpperLetters ==
  <<"A", "B", "C", "D", "E", "F", "G", "H", "I", "J", "K", "L", "M",
    "N", "O", "P", "Q", "R", "S", "T", "U", "V", "W", "X", "Y", "Z">>

LowerSet == {LowerLetters[i] : i \in 1..Len(LowerLetters)}
UpperSet == {UpperLetters[i] : i \in 1..Len(UpperLetters)}

ToUpper == [c \in LowerSet |-> UpperLetters[CHOOSE i \in 1..Len(LowerLetters) : LowerLetters[i] = c]]
ToLower == [c \in UpperSet |-> LowerLetters[CHOOSE i \in 1..Len(UpperLetters) : UpperLetters[i] = c]]

UpperChar(c) == IF c \in LowerSet THEN ToUpper[c] ELSE c

LowerChar(c) == IF c \in UpperSet THEN ToLower[c] ELSE c

\* str.upper() / str.lower()
Upper(s) == [i \in 1..Len(s) |-> UpperChar(s[i])]
Lower(s) == [i \in 1..Len(s) |-> LowerChar(s[i])]

AllDigits(s) == \A i \in 1..Len(s) : s[i] \in Digit

RECURSIVE NatOf(_)
\* int() of a string of digits
NatOf(s) ==
  IF s = <<>> THEN 0
  ELSE 10 * NatOf(SubSeq(s, 1, Len(s) - 1)) + DigitVal(s[Len(s)])

RECURSIVE NatStr(_)
\* str() of a natural number
NatStr(n) ==
  IF n < 10 THEN <<DigitChar(n)>>
  ELSE NatStr(n \div 10) \o <<DigitChar(n % 10)>>

IntStr(n) == IF n < 0 THEN <<"-">> \o NatStr(0 - n) ELSE NatStr(n)

RECURSIVE ZeroPad(_, _)
\* a digit string left-padded with zeros to width w (strftime %m, %d, %Y)
ZeroPad(s, w) == IF Len(s) >= w THEN s ELSE ZeroPad(<<"0">> \o s, w)

RECURSIVE Split(_, _)
\* the fields of s between occurrences of the character sep
Split(s, sep) ==
  IF \A i \in 1..Len(s) : s[i] # sep THEN <<s>>
  ELSE LET p == CHOOSE i \in 1..Len(s) :
                  s[i] = sep /\ \A j \in 1..(i - 1) : s[j] # sep
       IN <<SubSeq(s, 1, p - 1)>> \o Split(SubSeq(s, p + 1, Len(s)), sep)

RECURSIVE Pow10(_)
Pow10(k) == IF k = 0 THEN 1 ELSE 10 * Pow10(k - 1)

(***************************************************************************)
(* JSON values (CellValue)                                                 *)
(***************************************************************************)
Null == [tag |-> "null", s |-> <<>>, m |-> 0, k |-> 0]
Text(s) == [tag |-> "text", s |-> s, m |-> 0, k |-> 0]
IntV(n) == [tag |-> "int", s |-> <<>>, m |-> n, k |-> 0]
\* the float m / 10^k (k >= 1)
FloatV(m, k) == [tag |-> "float", s |-> <<>>, m |-> m, k |-> k]
BoolV(b) == [tag |-> "bool", s |-> <<>>, m |-> IF b THEN 1 ELSE 0, k |-> 0]
\* a key that a dict does not hold
Absent == [tag |-> "absent", s |-> <<>>, m |-> 0, k |-> 0]

EmptyText == Text(<<>>)

Abs(n) == IF n < 0 THEN 0 - n ELSE n

\* Python str(value)
PyStr(v) ==
  CASE v.tag = "text" -> v.s
    [] v.tag = "int" -> IntStr(v.m)
    [] v.tag = "float" ->
         (IF v.m < 0 THEN <<"-">> ELSE <<>>)
         \o NatStr(Abs(v.m) \div Pow10(v.k)) \o <<".">>
         \o ZeroPad(NatStr(Abs(v.m) % Pow10(v.k)), v.k)
    [] v.tag = "bool" -> IF v.m = 1 THEN <<"T", "r", "u", "e">>
                                    ELSE <<"F", "a", "l", "s", "e">>
    [] OTHER -> <<"N", "o", "n", "e">>

\* Python truthiness
Truthy(v) ==
  CASE v.tag = "text" -> v.s # <<>>
    [] v.tag \in {"int", "float", "bool"} -> v.m # 0
    [] OTHER -> FALSE

NoNumber == [ok |-> FALSE, m |-> 0, k |-> 0]
Number(m, k) == [ok |-> TRUE, m |-> m, k |-> k]

\* float(text): optional sign, digits, optional point and digits
FloatOfText(s) ==
  LET t == Strip(s)
      neg == t # <<>> /\ Head(t) = "-"
      u == IF t # <<>> /\ Head(t) \in {"-", "+"} THEN Tail(t) ELSE t
      parts == Split(u, ".")
      whole == parts[1]
      frac == IF Len(parts) = 2 THEN parts[2] ELSE <<>>
      mag == NatOf(whole) * Pow10(Len(frac)) + NatOf(frac)
  IN IF /\ Len(parts) \in {1, 2}
        /\ AllDigits(whole) /\ AllDigits(frac)
        /\ Len(whole) + Len(frac) >= 1
     THEN Number(IF neg THEN 0 - mag ELSE mag, Len(frac))
     ELSE NoNumber

\* Python float(value); ok = FALSE stands for ValueError / TypeError
PyFloat(v) ==
  CASE v.tag = "text" -> FloatOfText(v.s)
    [] v.tag \in {"int", "float", "bool"} -> Number(v.m, v.k)
    [] OTHER -> NoNumber

\* a == b, a <= b on numbers m / 10^k
NumEq(a, b) == a.m * Pow10(b.k) = b.m * Pow10(a.k)
NumLe(a, b) == a.m * Pow10(b.k) <= b.m * Pow10(a.k)
\* int(x): truncation toward zero
NumTrunc(a) ==
  IF a.m >= 0 THEN a.m \div Pow10(a.k) ELSE 0 - ((0 - a.m) \div Pow10(a.k))

(***************************************************************************)
(* Calendar dates                                                          *)
(***************************************************************************)
NoDate == [ok |-> FALSE, y |-> 0, m |-> 0, d |-> 0]
Date(y, m, d) == [ok |-> TRUE, y |-> y, m |-> m, d |-> d]

IsLeap(y) == (y % 4 = 0 /\ y % 100 # 0) \/ y % 400 = 0

DaysInMonth(y, m) ==
  IF m = 2 THEN (IF IsLeap(y) THEN 29 ELSE 28)
  ELSE IF m \in {4, 6, 9, 11} THEN 30 ELSE 31

\* day number of a proleptic Gregorian date (datetime arithmetic)
DaysFromCivil(y, m, d) ==
  LET yy == IF m <= 2 THEN y - 1 ELSE y
      era == yy \div 400
      yoe == yy - era * 400
      mp == (m + 9) % 12
      doy == (153 * mp + 2) \div 5 + d - 1
      doe == yoe * 365 + yoe \div 4 - yoe \div 100 + doy
  IN era * 146097 + doe

CivilFromDays(z) ==
  LET era == z \div 146097
      doe == z - era * 146097
      yoe == (doe - doe \div 1460 + doe \div 36524 - doe \div 146096) \div 365
      doy == doe - (365 * yoe + yoe \div 4 - yoe \div 100)
      mp == (5 * doy + 2) \div 153
      d == doy - (153 * mp + 2) \div 5 + 1
      m == IF mp < 10 THEN mp + 3 ELSE mp - 9
      y == yoe + era * 400 + (IF m <= 2 THEN 1 ELSE 0)
  IN Date(y, m, d)

\* excel_epoch = datetime(1899, 12, 30)
ExcelEpoch == DaysFromCivil(1899, 12, 30)

\* mutant: days counted from 1 January 1900 as day 1, without the compensation
\* for the leap day Excel gives 1900
date_to_excel_serial_from_1900(dt) ==
  DaysFromCivil(dt.y, dt.m, dt.d) - DaysFromCivil(1900, 1, 1) + 1

\* date_to_excel_serial: (dt - excel_epoch).days
date_to_excel_serial(dt) == DaysFromCivil(dt.y, dt.m, dt.d) - ExcelEpoch

\* mutant: the serial is rounded to the nearest day
excel_serial_to_date_rounded(serial) ==
  CivilFromDays(ExcelEpoch + NumTrunc(Number(serial.m * 10 + 5 * Pow10(serial.k), serial.k + 1)))

\* excel_serial_to_date: excel_epoch + timedelta(days=int(serial))
excel_serial_to_date(serial) == CivilFromDays(ExcelEpoch + NumTrunc(serial))

\* mutant: the day is written before the month
FormatDMY(dt) ==
  ZeroPad(NatStr(dt.d), 2) \o <<"/">> \o ZeroPad(NatStr(dt.m), 2)
  \o <<"/">> \o ZeroPad(NatStr(dt.y), 4)

\* dt.strftime("%m/%d/%Y")
FormatMDY(dt) ==
  ZeroPad(NatStr(dt.m), 2) \o <<"/">> \o ZeroPad(NatStr(dt.d), 2)
  \o <<"/">> \o ZeroPad(NatStr(dt.y), 4)

(***************************************************************************)
(* strptime directives: the value a field converts to, or -1               *)
(***************************************************************************)
\* %m and %I: 1[0-2]|0[1-9]|[1-9]
FieldMonth(f) ==
  IF Len(f) \in {1, 2} /\ AllDigits(f) /\ NatOf(f) \in 1..12 THEN NatOf(f) ELSE -1

\* %d: 3[0-1]|[1-2]\d|0[1-9]|[1-9]| [1-9]
FieldDay(f) ==
  IF Len(f) \in {1, 2} /\ AllDigits(f) /\ NatOf(f) \in 1..31 THEN NatOf(f)
  ELSE IF Len(f) = 2 /\ f[1] = " " /\ f[2] \in Digit \ {"0"} THEN DigitVal(f[2])
  ELSE -1

\* %Y: \d\d\d\d
FieldYear(f) == IF Len(f) = 4 /\ AllDigits(f) THEN NatOf(f) ELSE -1

Directive(d, f) ==
  CASE d = "m" -> FieldMonth(f)
    [] d = "d" -> FieldDay(f)
    [] d = "Y" -> FieldYear(f)

\* mutant: MM-DD-YYYY is tried before DD-MM-YYYY
date_formats_month_first ==
  << [sep |-> "/", order |-> <<"m", "d", "Y">>],
     [sep |-> "-", order |-> <<"Y", "m", "d">>],
     [sep |-> "-", order |-> <<"m", "d", "Y">>],
     [sep |-> "-", order |-> <<"d", "m", "Y">>],
     [sep |-> "/", order |-> <<"Y", "m", "d">>] >>

\* the formats of parse_date_string, in its order
date_formats ==
  << [sep |-> "/", order |-> <<"m", "d", "Y">>],
     [sep |-> "-", order |-> <<"Y", "m", "d">>],
     [sep |-> "-", order |-> <<"d", "m", "Y">>],
     [sep |-> "-", order |-> <<"m", "d", "Y">>],
     [sep |-> "/", order |-> <<"Y", "m", "d">>] >>

\* datetime.strptime(text, fmt) for a three-field date format; NoDate = ValueError
StrpDate(text, fmt) ==
  LET f == Split(text, fmt.sep)
      val(d) == Directive(d, f[CHOOSE i \in 1..3 : fmt.order[i] = d])
  IN IF Len(f) # 3 THEN NoDate
     ELSE IF val("Y") < 1 \/ val("m") < 1 \/ val("d") < 1 THEN NoDate
     ELSE IF val("d") > DaysInMonth(val("Y"), val("m")) THEN NoDate
     ELSE Date(val("Y"), val("m"), val("d"))

RECURSIVE TryDateFormats(_, _)
TryDateFormats(text, i) ==
  IF i > Len(date_formats) THEN NoDate
  ELSE IF StrpDate(text, date_formats[i]).ok THEN StrpDate(text, date_formats[i])
  ELSE TryDateFormats(text, i + 1)

\* parse_date_string(value)
parse_date_string(value) == TryDateFormats(Strip(value), 1)

\* is_likely_date_string: the four shape patterns, on the stripped text
ShapeMatches(t, sep, widths) ==
  LET f == Split(t, sep)
  IN /\ Len(f) = 3
     /\ \A i \in 1..3 : AllDigits(f[i]) /\ Len(f[i]) \in widths[i]

\* mutant: only the shape with slashes and the year last
is_likely_date_string_slashes(value) ==
  ShapeMatches(Strip(value), "/", <<{1, 2}, {1, 2}, {4}>>)

is_likely_date_string(value) ==
  LET t == Strip(value)
  IN \/ ShapeMatches(t, "/", <<{1, 2}, {1, 2}, {4}>>)
     \/ ShapeMatches(t, "-", <<{4}, {2}, {2}>>)
     \/ ShapeMatches(t, "-", <<{2}, {2}, {4}>>)
     \/ ShapeMatches(t, "/", <<{4}, {2}, {2}>>)

\* Excel dates are typically > 1 and < 2958465 (year 9999)
MinDateSerial == 1
MaxDateSerial == 2958465

\* mutant: the date tier without the range check on the cell's number
compare_values_any_serial(cell_value, reference_value) ==
  LET parsed_date == parse_date_string(reference_value)
      cell_num == PyFloat(cell_value)
      ref_num == FloatOfText(reference_value)
  IN IF cell_value.tag = "null" THEN FALSE
     ELSE \/ PyStr(cell_value) = reference_value
          \/ /\ is_likely_date_string(reference_value)
             /\ parsed_date.ok
             /\ cell_num.ok
             /\ NumTrunc(cell_num) = date_to_excel_serial(parsed_date)
          \/ /\ cell_num.ok /\ ref_num.ok
             /\ NumEq(cell_num, ref_num)

\* compare_values_for_search(cell_value, reference_value)
compare_values_for_search(cell_value, reference_value) ==
  LET parsed_date == parse_date_string(reference_value)
      cell_num == PyFloat(cell_value)
      ref_num == FloatOfText(reference_value)
  IN IF cell_value.tag = "null" THEN FALSE
     ELSE \/ PyStr(cell_value) = reference_value
          \/ /\ is_likely_date_string(reference_value)
             /\ parsed_date.ok
             /\ cell_num.ok
             /\ NumLe(Number(MinDateSerial, 0), cell_num)
             /\ NumLe(cell_num, Number(MaxDateSerial, 0))
             /\ NumTrunc(cell_num) = date_to_excel_serial(parsed_date)
          \/ /\ cell_num.ok /\ ref_num.ok
             /\ NumEq(cell_num, ref_num)

(***************************************************************************)
(* State                                                                   *)
(***************************************************************************)
VARIABLES
  sheet,    \* the worksheet held by the Workbook Range Store: a sequence of rows
  tl,       \* per invocation slot: the state of the tool handler
  im,       \* per invocation slot: the state of _update_row_by_lookup_impl
  calls,    \* per invocation slot: the store calls issued by the current invocation
  hist,     \* rows that finished logTrades invocations wrote trade cells into
  budget,   \* store faults (rejections, transport errors) still to be injected
  invLeft   \* tool invocations still to be started

vars == <<sheet, tl, im, calls, hist, budget, invLeft>>

\* the two slots in which tool invocations run
Procs == {"p1", "p2"}

(***************************************************************************)
(* The Workbook Range Store                                                *)
(***************************************************************************)
\* COLUMN_ORDER of excel_log_trades
COLUMN_ORDER ==
  << <<"C">>, <<"E">>, <<"F">>, <<"G">>, <<"I">>, <<"J">>, <<"K">>, <<"L">>,
     <<"N">>, <<"O">>, <<"Q">>, <<"R">>, <<"T">> >>

\* the columns of the modelled worksheet
SheetCols == {COLUMN_ORDER[i] : i \in 1..Len(COLUMN_ORDER)}

IsEmptyCell(v) == v.tag = "null" \/ v = EmptyText

EmptyRow == [c \in SheetCols |-> EmptyText]

\* a worksheet whose column C holds the given values
SheetOfColumnC(col) ==
  [r \in 1..Len(col) |-> [EmptyRow EXCEPT ![<<"C">>] = col[r]]]

\* getUsedExtent: the last row that holds a value (0 for an empty sheet)
UsedRowCount(sh) ==
  LET used == {r \in 1..Len(sh) : \E c \in SheetCols : ~IsEmptyCell(sh[r][c])}
  IN IF used = {} THEN 0 ELSE CHOOSE r \in used : \A q \in used : q <= r

\* readRange of "<col>1:<col>n": one value per row
ReadColumn(sh, col, n) ==
  [r \in 1..n |-> IF r <= Len(sh) THEN sh[r][Upper(col)] ELSE EmptyText]

\* the store's reading of a single-cell address: letters, then a row number >= 1
LettersOf(addr) ==
  LET nonLetter == {i \in 1..Len(addr) : addr[i] \notin LowerSet \cup UpperSet}
      cut == IF nonLetter = {} THEN Len(addr) + 1
             ELSE CHOOSE i \in nonLetter : \A j \in nonLetter : i <= j
  IN cut - 1

AddrCol(addr) == Upper(SubSeq(addr, 1, LettersOf(addr)))
AddrRowText(addr) == SubSeq(addr, LettersOf(addr) + 1, Len(addr))
AddrRow(addr) == NatOf(AddrRowText(addr))

ValidAddress(addr) ==
  /\ AddrCol(addr) \in SheetCols
  /\ AddrRowText(addr) # <<>>
  /\ AllDigits(AddrRowText(addr))
  /\ AddrRow(addr) >= 1

\* writeRange of a single cell: the value is stored as given
WriteCell(sh, addr, v) ==
  LET r == AddrRow(addr)
      grown == [q \in 1..(IF r > Len(sh) THEN r ELSE Len(sh)) |->
                  IF q <= Len(sh) THEN sh[q] ELSE EmptyRow]
  IN [grown EXCEPT ![r][AddrCol(addr)] = v]

(***************************************************************************)
(* _update_row_by_lookup_impl                                              *)
(***************************************************************************)
NoResult ==
  [status |-> "none", reason |-> "none", updated_cells |-> <<>>, errors |-> <<>>,
   sample_values |-> <<>>, found_row |-> 0, target_row |-> 0]

ErrorResult(reason) == [NoResult EXCEPT !.status = "error", !.reason = reason]

ImplIdle ==
  [pc |-> "idle", search_column |-> <<>>, reference_value |-> <<>>,
   target_columns_list |-> <<>>, values_list |-> <<>>, row_offset |-> 0,
   row_count |-> 0, column_values |-> <<>>, found_row |-> 0, target_row |-> 0,
   k |-> 0, updated_cells |-> <<>>, errors |-> <<>>, result |-> NoResult]

\* the call _update_row_by_lookup_impl(...) about to run its first statement
ImplCall(search_column, reference_value, cols, vals, row_offset) ==
  [ImplIdle EXCEPT !.pc = "check", !.search_column = search_column,
                   !.reference_value = reference_value,
                   !.target_columns_list = cols, !.values_list = vals,
                   !.row_offset = row_offset]

\* a store call as the history records it
Call(kind, addr, outcome, trade) ==
  [kind |-> kind, addr |-> addr, outcome |-> outcome, trade |-> trade]

\* mutant: only a shorter value list is refused
LengthMismatchOneWay(cols, vals) == Len(cols) > Len(vals)

\* len(target_columns_list) != len(values_list)
LengthMismatch(cols, vals) == Len(cols) # Len(vals)

RECURSIVE ScanFrom(_, _, _)
\* the loop "for i, row in enumerate(column_values)": first match from index i on
ScanFrom(column_values, reference_value, i) ==
  IF i > Len(column_values) THEN 0
  ELSE IF compare_values_for_search(column_values[i], reference_value) THEN i
  ELSE ScanFrom(column_values, reference_value, i + 1)

\* mutant: the scan keeps the last match instead of stopping at the first
FindRowLast(column_values, reference_value) ==
  LET hits == {i \in 1..Len(column_values) :
                 compare_values_for_search(column_values[i], reference_value)}
  IN IF hits = {} THEN 0 ELSE CHOOSE i \in hits : \A j \in hits : j <= i

\* found_row (1-based), 0 standing for None
FindRow(column_values, reference_value) == ScanFrom(column_values, reference_value, 1)

\* column_values[:10]
SampleLimit == 10

\* mutant: every scanned value is sampled
SampleValuesAll(column_values) ==
  [i \in 1..Len(column_values) |->
     IF column_values[i].tag # "null" THEN PyStr(column_values[i])
     ELSE <<"e", "m", "p", "t", "y">>]

\* sample_values of the not-found result
SampleValues(column_values) ==
  [i \in 1..(IF Len(column_values) < SampleLimit THEN Len(column_values) ELSE SampleLimit) |->
     IF column_values[i].tag # "null" THEN PyStr(column_values[i])
     ELSE <<"e", "m", "p", "t", "y">>]

\* mutant: every call targets the row right below the match
TargetRowNext(found_row, row_offset) == found_row + 1

\* target_row = found_row + row_offset
TargetRow(found_row, row_offset) == found_row + row_offset

\* cell_address = f"{col.upper()}{target_row}"
CellAddress(col, target_row) == Upper(col) \o IntStr(target_row)

\* mutant: an empty worksheet is not refused
SheetEmptyNever(row_count) == FALSE

\* row_count == 0
SheetEmpty(row_count) == row_count = 0

\* mutant: the loop stops at the first rejected write
NextPairStopOnError(k, n, ok) == IF ok THEN k + 1 ELSE n

\* the index of the pair the write loop handles after pair k, given pair k's response
NextPair(k, n, ok) == k + 1

\* the result after the write loop
WriteResult(st) ==
  IF st.errors # <<>>
  THEN [NoResult EXCEPT !.status = "partial_error", !.reason = "cells_failed",
                        !.updated_cells = st.updated_cells, !.errors = st.errors]
  ELSE [NoResult EXCEPT !.status = "success", !.reason = "updated",
                        !.updated_cells = st.updated_cells,
                        !.found_row = st.found_row, !.target_row = st.target_row]

Return(p, result) == im' = [im EXCEPT ![p].pc = "return", ![p].result = result]

Raise(p) == im' = [im EXCEPT ![p].pc = "raised"]

Issue(p, kind, addr, outcome) ==
  calls' = [calls EXCEPT ![p] = Append(@, Call(kind, addr, outcome, tl[p].i))]

Fault == budget > 0 /\ budget' = budget - 1

\* history: the row of a cell that a logTrades invocation has written
Logged(p, addr) ==
  IF tl[p].kind = "log" THEN hist \cup {[inv |-> tl[p].inv, row |-> AddrRow(addr)]} ELSE hist

\* lines 544-549: the length check
ImplCheck(p) ==
  /\ im[p].pc = "check"
  /\ IF LengthMismatch(im[p].target_columns_list, im[p].values_list)
     THEN Return(p, ErrorResult("mismatch"))
     ELSE im' = [im EXCEPT ![p].pc = "resolve"]
  /\ UNCHANGED <<sheet, tl, calls, hist, budget, invLeft>>

\* lines 551-554: resolve_excel_file_ids, which catches its own exceptions
ImplResolve(p) ==
  /\ im[p].pc = "resolve"
  /\ \/ /\ Issue(p, "resolve", <<>>, "ok")
        /\ im' = [im EXCEPT ![p].pc = "used_range"]
        /\ UNCHANGED budget
     \/ /\ Fault
        /\ Issue(p, "resolve", <<>>, "rejected")
        /\ Return(p, ErrorResult("resolve"))
  /\ UNCHANGED <<sheet, tl, hist, invLeft>>

\* lines 563-590: the used-range query
ImplUsedRange(p) ==
  /\ im[p].pc = "used_range"
  /\ \/ /\ Issue(p, "used_range", <<>>, "ok")
        /\ IF SheetEmpty(UsedRowCount(sheet))
           THEN Return(p, ErrorResult("empty"))
           ELSE im' = [im EXCEPT ![p].pc = "read", ![p].row_count = UsedRowCount(sheet)]
        /\ UNCHANGED budget
     \/ /\ Fault
        /\ Issue(p, "used_range", <<>>, "rejected")
        /\ Return(p, ErrorResult("used_range"))
     \/ /\ Fault
        /\ Issue(p, "used_range", <<>>, "transport")
        /\ Raise(p)
  /\ UNCHANGED <<sheet, tl, hist, invLeft>>

\* lines 592-639: the search-column read and the scan for the reference value
ImplReadColumn(p) ==
  LET st == im[p]
      addr == st.search_column \o <<"1", ":">> \o st.search_column \o IntStr(st.row_count)
      column_values == ReadColumn(sheet, st.search_column, st.row_count)
      found_row == FindRow(column_values, st.reference_value)
  IN /\ st.pc = "read"
     /\ \/ /\ Issue(p, "read", addr, "ok")
           /\ IF found_row = 0
              THEN im' = [im EXCEPT ![p].pc = "return",
                                    ![p].column_values = column_values,
                                    ![p].result =
                                      [ErrorResult("not_found") EXCEPT
                                         !.sample_values = SampleValues(column_values)]]
              ELSE im' = [im EXCEPT ![p].pc = "write",
                                    ![p].column_values = column_values,
                                    ![p].found_row = found_row,
                                    ![p].target_row = TargetRow(found_row, st.row_offset)]
           /\ UNCHANGED budget
        \/ /\ Fault
           /\ Issue(p, "read", addr, "rejected")
           /\ Return(p, ErrorResult("read"))
        \/ /\ Fault
           /\ Issue(p, "read", addr, "transport")
           /\ Raise(p)
     /\ UNCHANGED <<sheet, tl, hist, invLeft>>

\* lines 645-667: one round of the write loop
ImplWriteCell(p) ==
  LET st == im[p]
      n == IF Len(st.target_columns_list) < Len(st.values_list)
           THEN Len(st.target_columns_list) ELSE Len(st.values_list)
      k == st.k + 1
      addr == CellAddress(st.target_columns_list[k], st.target_row)
      value == st.values_list[k]
  IN /\ st.pc = "write"
     /\ st.k < n
     /\ \/ /\ ValidAddress(addr)
           /\ Issue(p, "write", addr, "ok")
           /\ sheet' = WriteCell(sheet, addr, value)
           /\ hist' = Logged(p, addr)
           /\ im' = [im EXCEPT ![p].k = NextPair(st.k, n, TRUE),
                               ![p].updated_cells = Append(@, addr)]
           /\ UNCHANGED budget
        \/ /\ IF ValidAddress(addr) THEN Fault ELSE UNCHANGED budget
           /\ Issue(p, "write", addr, "rejected")
           /\ im' = [im EXCEPT ![p].k = NextPair(st.k, n, FALSE),
                               ![p].errors = Append(@, [cell |-> addr, error |-> "rejected"])]
           /\ UNCHANGED <<sheet, hist>>
        \/ /\ Fault
           /\ Issue(p, "write", addr, "transport")
           /\ Raise(p)
           /\ \/ UNCHANGED <<sheet, hist>>
              \/ /\ ValidAddress(addr)
                 /\ sheet' = WriteCell(sheet, addr, value)
                 /\ hist' = Logged(p, addr)
     /\ UNCHANGED <<tl, invLeft>>

\* lines 669-688: the result after the loop
ImplFinish(p) ==
  LET st == im[p]
      n == IF Len(st.target_columns_list) < Len(st.values_list)
           THEN Len(st.target_columns_list) ELSE Len(st.values_list)
  IN /\ st.pc = "write"
     /\ st.k >= n
     /\ Return(p, WriteResult(st))
     /\ UNCHANGED <<sheet, tl, calls, hist, budget, invLeft>>

ImplStep(p) ==
  \/ ImplCheck(p)
  \/ ImplResolve(p)
  \/ ImplUsedRange(p)
  \/ ImplReadColumn(p)
  \/ ImplWriteCell(p)
  \/ ImplFinish(p)

(***************************************************************************)
(* The tool handlers                                                       *)
(***************************************************************************)
NoResponse ==
  [status |-> "none", reason |-> "none", impl |-> NoResult,
   results |-> <<>>, errors |-> <<>>]

ToolIdle ==
  [kind |-> "none", pc |-> "idle", inv |-> 0, i |-> 0, input |-> <<>>, trades |-> <<>>,
   reference_date |-> <<>>, derived |-> FALSE, last_date_row |-> 0,
   values |-> <<>>, results |-> <<>>, errors |-> <<>>, response |-> NoResponse]

\* a JSON text argument, by what json.loads makes of it
JsonBad == [json |-> "bad", list |-> <<>>]
JsonNotList == [json |-> "not_list", list |-> <<>>]
JsonList(l) == [json |-> "list", list |-> l]

Prefixes(l) == {SubSeq(l, 1, n) : n \in 0..Len(l)}

(***************************************************************************)
(* Inputs of excel.updateRowByLookup                                       *)
(***************************************************************************)
\* the longest target-column and value lists
MaxPairs == 3
\* the longest enumerated search column
MaxScanRows == 3
\* store faults injected into one updateRowByLookup run
MaxCellFaults == 3

TxtDate1 == <<"1", "2", "/", "2", "2", "/", "2", "0", "2", "5">>
TxtTrade1 == <<"T", "R", "D", "-", "0", "0", "1">>
TxtAbsent == <<"Z", "Z", "Z">>

\* cells of the enumerated search columns
UpdateCellPool == {IntV(46013), Text(TxtTrade1), EmptyText}

RECURSIVE SeqsUpTo(_, _)
\* the sequences over S of length at most n
SeqsUpTo(S, n) ==
  IF n = 0 THEN {<<>>}
  ELSE LET shorter == SeqsUpTo(S, n - 1)
       IN shorter \cup {Append(q, x) : q \in shorter, x \in S}

\* a search column longer than the sample limit
LongColumn == [r \in 1..(SampleLimit + MaxScanRows) |->
                 IF r = SampleLimit + 2 THEN Text(TxtTrade1)
                 ELSE IF r % 3 = 0 THEN Null ELSE IntV(100 + r)]

UpdateColumns == SeqsUpTo(UpdateCellPool, MaxScanRows) \cup {LongColumn}

UpdateReferences == {TxtDate1, TxtTrade1, TxtAbsent}

UpdateTargetColumns ==
  LET base == [i \in 1..MaxPairs |->
                 IF i % 3 = 1 THEN <<"e">> ELSE IF i % 3 = 2 THEN <<"F">> ELSE <<"c">>]
  IN Prefixes(base) \cup {<<<<"G">>, <<"G">>>>}

UpdateValues ==
  Prefixes([i \in 1..MaxPairs |->
              IF i % 3 = 1 THEN IntV(7) ELSE IF i % 3 = 2 THEN Text(<<"x">>)
              ELSE Text(TxtTrade1)])

UpdateOffsets == {-1, 0, 1}

(***************************************************************************)
(* excel.updateRowByLookup                                                 *)
(***************************************************************************)
\* lines 726-764: the JSON arguments are parsed and the implementation is called
UpdateInvokeWith(p, targetColumns, valueLists, references, offsets) ==
  /\ tl[p].pc \in {"idle", "done"}
  /\ invLeft > 0
  /\ invLeft' = invLeft - 1
  /\ calls' = [calls EXCEPT ![p] = <<>>]
  /\ \E target_columns \in {JsonBad, JsonNotList} \cup {JsonList(l) : l \in targetColumns},
        values \in {JsonBad, JsonNotList} \cup {JsonList(l) : l \in valueLists},
        reference_value \in references,
        row_offset \in offsets :
       IF target_columns.json # "list" \/ values.json # "list"
       THEN /\ tl' = [tl EXCEPT ![p] =
                        [ToolIdle EXCEPT !.kind = "update", !.pc = "done", !.inv = invLeft,
                                         !.response = [NoResponse EXCEPT
                                                         !.status = "error",
                                                         !.reason = "bad_json"]]]
            /\ im' = [im EXCEPT ![p] = ImplIdle]
       ELSE /\ tl' = [tl EXCEPT ![p] = [ToolIdle EXCEPT !.kind = "update", !.pc = "await",
                                                       !.inv = invLeft]]
            /\ im' = [im EXCEPT ![p] =
                        ImplCall(<<"C">>, reference_value, target_columns.list,
                                 values.list, row_offset)]
  /\ UNCHANGED <<sheet, hist, budget>>

\* the invocations with the enumerated arguments
UpdateInvoke(p) ==
  UpdateInvokeWith(p, UpdateTargetColumns, UpdateValues, UpdateReferences, UpdateOffsets)

\* mutant: the handler has no except clause, an exception of the
\* implementation leaves the tool without a result
UpdateReturnUncaught(p) ==
  /\ tl[p].kind = "update"
  /\ tl[p].pc = "await"
  /\ im[p].pc \in {"return", "raised"}
  /\ tl' = [tl EXCEPT ![p].pc = "done",
                      ![p].response =
                        IF im[p].pc = "raised"
                        THEN NoResponse
                        ELSE [NoResponse EXCEPT !.status = im[p].result.status,
                                                !.reason = im[p].result.reason,
                                                !.impl = im[p].result]]
  /\ UNCHANGED <<sheet, im, calls, hist, budget, invLeft>>

\* lines 766-779: the result is serialized, or the exception is turned into a result
UpdateReturn(p) ==
  /\ tl[p].kind = "update"
  /\ tl[p].pc = "await"
  /\ im[p].pc \in {"return", "raised"}
  /\ tl' = [tl EXCEPT ![p].pc = "done",
                      ![p].response =
                        IF im[p].pc = "raised"
                        THEN [NoResponse EXCEPT !.status = "error", !.reason = "exception"]
                        ELSE [NoResponse EXCEPT !.status = im[p].result.status,
                                                !.reason = im[p].result.reason,
                                                !.impl = im[p].result]]
  /\ UNCHANGED <<sheet, im, calls, hist, budget, invLeft>>

InitUpdate ==
  /\ sheet \in {SheetOfColumnC(col) : col \in UpdateColumns}
  /\ tl = [p \in Procs |-> ToolIdle]
  /\ im = [p \in Procs |-> ImplIdle]
  /\ calls = [p \in Procs |-> <<>>]
  /\ hist = {}
  /\ budget = MaxCellFaults
  /\ invLeft = 1

NextUpdate ==
  \/ UpdateInvoke("p1")
  \/ ImplStep("p1")
  \/ UpdateReturn("p1")

SpecUpdate == InitUpdate /\ [][NextUpdate]_vars

(***************************************************************************)
(* Properties of excel.updateRowByLookup                                   *)
(***************************************************************************)
\* the cell writes of the implementation call now running in slot p
ImplWrites(p) ==
  SelectSeq(calls[p], LAMBDA c : c.kind = "write" /\ c.trade = tl[p].i)

\* the store calls of the implementation call now running in slot p
ImplCalls(p) == SelectSeq(calls[p], LAMBDA c : c.trade = tl[p].i)

Count(seq, outcome) == Cardinality({j \in 1..Len(seq) : seq[j].outcome = outcome})

Kinds(seq) == [j \in 1..Len(seq) |-> seq[j].kind]

\* C1: updateRowByLookup with target-column and value lists of different
\* lengths returns status error at once and issues no store call at all.
C1_MismatchNoStoreCalls ==
  \A p \in Procs :
    (tl[p].kind = "update" /\ im[p].pc # "idle"
       /\ Len(im[p].target_columns_list) # Len(im[p].values_list))
    => /\ calls[p] = <<>>
       /\ im[p].pc \in {"check", "return"}
       /\ im[p].pc = "return" => im[p].result.status = "error"
       /\ tl[p].pc = "done" => tl[p].response.status = "error"

C1_Witness ==
  /\ tl["p1"].pc = "done"
  /\ Len(im["p1"].target_columns_list) = 2
  /\ Len(im["p1"].values_list) = 3
  /\ tl["p1"].response.status = "error"
  /\ calls["p1"] = <<>>

\* C2: after a successful lookup the write loop issues exactly one
\* single-cell write per (column, value) pair, in list order, to the address
\* <column upper-cased><found row + offset>; a rejected write does not stop
\* the later writes.
C2_OneWritePerPairInOrder ==
  \A p \in Procs :
    (im[p].pc \in {"write", "return", "raised"} /\ im[p].found_row # 0)
    => LET w == ImplWrites(p)
           cols == im[p].target_columns_list
       IN /\ Len(w) <= Len(cols)
          /\ \A j \in 1..Len(w) :
               w[j].addr = Upper(cols[j]) \o IntStr(im[p].found_row + im[p].row_offset)
          /\ im[p].pc = "write" => Len(w) = im[p].k
          /\ im[p].pc = "return" => Len(w) = Len(cols)

C2_Witness ==
  LET w == ImplWrites("p1")
  IN /\ im["p1"].pc = "return"
     /\ Len(w) = 3
     /\ w[1].outcome = "rejected"
     /\ w[2].outcome = "ok"
     /\ w[3].outcome = "rejected"

\* C3: after the write phase the status is success exactly when every write
\* succeeded and partial_error exactly when some write succeeded and some
\* failed; partial_error never comes with an empty list of written cells.
C3_StatusByOutcomeCounts ==
  \A p \in Procs :
    (im[p].pc = "return" /\ im[p].found_row # 0)
    => LET good == Count(ImplWrites(p), "ok")
           bad == Count(ImplWrites(p), "rejected")
       IN /\ im[p].result.status = "success" <=> bad = 0
          /\ im[p].result.status = "partial_error" <=> (good > 0 /\ bad > 0)
          /\ im[p].result.status = "partial_error" => im[p].result.updated_cells # <<>>

\* C4: a transport error on one store call fails that call only: the failing
\* cell is recorded, the remaining cells are still attempted and the cells
\* already written are reported (updateRowByLookup); the failing trade is
\* recorded, the remaining trades are still attempted and the trades already
\* written stay listed (logTrades).
C4_TransportErrorFailsOneCall ==
  \A p \in Procs :
    (tl[p].pc = "done" /\ \E j \in 1..Len(calls[p]) :
                            calls[p][j].kind = "write" /\ calls[p][j].outcome = "transport")
    => /\ tl[p].kind = "update" =>
            /\ Len(ImplWrites(p)) = Len(im[p].target_columns_list)
            /\ Len(tl[p].response.impl.updated_cells) = Count(ImplWrites(p), "ok")
            /\ Len(tl[p].response.impl.errors) = Len(ImplWrites(p)) - Count(ImplWrites(p), "ok")
       /\ tl[p].kind = "log" =>
            /\ \A t \in 1..Len(tl[p].trades) :
                 \E j \in 1..Len(calls[p]) : calls[p][j].trade = t
            /\ Len(tl[p].response.results) + Len(tl[p].response.errors) = Len(tl[p].trades)

\* C8: the located row is the smallest 1-based row whose search-column cell
\* is equivalent to the reference value, and the row written is that row
\* plus rowOffset.
C8_FirstMatchPlusOffset ==
  \A p \in Procs :
    im[p].found_row # 0
    => LET col == im[p].column_values
           ref == im[p].reference_value
       IN /\ im[p].found_row \in 1..Len(col)
          /\ compare_values_for_search(col[im[p].found_row], ref)
          /\ \A j \in 1..(im[p].found_row - 1) : ~compare_values_for_search(col[j], ref)
          /\ im[p].target_row = im[p].found_row + im[p].row_offset
          /\ \A j \in 1..Len(ImplWrites(p)) :
               AddrRowText(ImplWrites(p)[j].addr) = IntStr(im[p].found_row + im[p].row_offset)

C8_Witness ==
  /\ im["p1"].pc = "return"
  /\ im["p1"].result.status = "success"
  /\ im["p1"].found_row = 2
  /\ im["p1"].row_offset = 1
  /\ Len(im["p1"].column_values) = 3
  /\ compare_values_for_search(im["p1"].column_values[3], im["p1"].reference_value)
  /\ Len(ImplWrites("p1")) = 2

\* C9: when no cell of the scanned column is equivalent to the reference
\* value the result is the not-found error with exactly min(10, scanned rows)
\* sample values from the top of the column, and no cell write is issued.
C9_NotFoundSamples ==
  \A p \in Procs :
    LET col == im[p].column_values
        ref == im[p].reference_value
        read == \E j \in 1..Len(ImplCalls(p)) :
                  ImplCalls(p)[j].kind = "read" /\ ImplCalls(p)[j].outcome = "ok"
        res == im[p].result
    IN (im[p].pc # "idle" /\ read
          /\ \A j \in 1..Len(col) : ~compare_values_for_search(col[j], ref))
       => /\ im[p].pc = "return"
          /\ res.status = "error"
          /\ res.reason = "not_found"
          /\ Len(col) = im[p].row_count
          /\ Len(res.sample_values) = (IF Len(col) < 10 THEN Len(col) ELSE 10)
          /\ \A i \in 1..Len(res.sample_values) :
               res.sample_values[i] =
                 (IF col[i].tag = "null" THEN <<"e", "m", "p", "t", "y">> ELSE PyStr(col[i]))
          /\ ImplWrites(p) = <<>>

C9_Witness ==
  /\ tl["p1"].pc = "done"
  /\ tl["p1"].response.reason = "not_found"
  /\ Len(im["p1"].column_values) > 10
  /\ Len(tl["p1"].response.impl.sample_values) = 10

\* C10: when document resolution fails, the used-extent query fails, the
\* sheet has no rows or the search-column read fails, the implementation
\* ends with status error at that step and issues no later store call, so no
\* cell is written.
C10_FailFast ==
  \A p \in Procs :
    LET c == ImplCalls(p)
        last == c[Len(c)]
        res == im[p].result
    IN (im[p].pc # "idle" /\ c # <<>> /\ last.kind \in {"resolve", "used_range", "read"})
       => /\ Kinds(c) = SubSeq(<<"resolve", "used_range", "read">>, 1, Len(c))
          /\ last.outcome = "rejected" =>
               /\ im[p].pc = "return"
               /\ res.status = "error"
               /\ res.reason = last.kind
          /\ last.outcome = "transport" =>
               /\ im[p].pc = "raised"
               /\ tl[p].pc = "done" => tl[p].response.status = "error"
          /\ (last.kind = "used_range" /\ last.outcome = "ok" /\ UsedRowCount(sheet) = 0) =>
               /\ im[p].pc = "return"
               /\ res.status = "error"
               /\ res.reason = "empty"

C10_Witness ==
  /\ tl["p1"].pc = "done"
  /\ tl["p1"].response.status = "error"
  /\ tl["p1"].response.reason = "empty"
  /\ Kinds(calls["p1"]) = <<"resolve", "used_range">>

(***************************************************************************)
(* Strategy Code Mapper (config.py)                                        *)
(***************************************************************************)
\* STRATEGY_MAPPING: verbose name -> short code, in the order of the table
STRATEGY_MAPPING ==
  << [key |-> <<"c", "o", "v", "e", "r", "e", "d", " ", "c", "a", "l", "l">>,
      code |-> <<"C", "C">>],
     [key |-> <<"c", "c">>,
      code |-> <<"C", "C">>],
     [key |-> <<"n", "a", "k", "e", "d", " ", "p", "u", "t">>,
      code |-> <<"N", "P">>],
     [key |-> <<"n", "p">>,
      code |-> <<"N", "P">>],
     [key |-> <<"c", "a", "s", "h", "-", "s", "e", "c", "u", "r", "e", "d", " ", "p", "u", "t">>,
      code |-> <<"C", "S", "P">>],
     [key |-> <<"c", "a", "s", "h", " ", "s", "e", "c", "u", "r", "e", "d", " ", "p", "u", "t">>,
      code |-> <<"C", "S", "P">>],
     [key |-> <<"c", "s", "p">>,
      code |-> <<"C", "S", "P">>],
     [key |-> <<"i", "r", "o", "n", " ", "c", "o", "n", "d", "o", "r">>,
      code |-> <<"I", "C">>],
     [key |-> <<"i", "c">>,
      code |-> <<"I", "C">>],
     [key |-> <<"c", "o", "n", "d", "o", "r">>,
      code |-> <<"I", "C">>],
     [key |-> <<"i", "r", "o", "n", " ", "b", "u", "t", "t", "e", "r", "f", "l", "y">>,
      code |-> <<"I", "B">>],
     [key |-> <<"i", "b">>,
      code |-> <<"I", "B">>],
     [key |-> <<"b", "u", "t", "t", "e", "r", "f", "l", "y">>,
      code |-> <<"I", "B">>],
     [key |-> <<"v", "e", "r", "t", "i", "c", "a", "l", " ", "p", "u", "t", " ", "c", "r", "e", "d", "i", "t", " ", "s", "p", "r", "e", "a", "d">>,
      code |-> <<"V", "P", "C", "S">>],
     [key |-> <<"p", "u", "t", " ", "c", "r", "e", "d", "i", "t", " ", "s", "p", "r", "e", "a", "d">>,
      code |-> <<"V", "P", "C", "S">>],
     [key |-> <<"v", "e", "r", "t", "i", "c", "a", "l", " ", "p", "u", "t", " ", "c", "r", "e", "d", "i", "t">>,
      code |-> <<"V", "P", "C", "S">>],
     [key |-> <<"v", "e", "r", "t", "i", "c", "a", "l", " ", "p", "u", "t", " ", "s", "p", "r", "e", "a", "d">>,
      code |-> <<"V", "P", "C", "S">>],
     [key |-> <<"p", "u", "t", " ", "v", "e", "r", "t", "i", "c", "a", "l", " ", "c", "r", "e", "d", "i", "t">>,
      code |-> <<"V", "P", "C", "S">>],
     [key |-> <<"p", "u", "t", " ", "v", "e", "r", "t", "i", "c", "a", "l">>,
      code |-> <<"V", "P", "C", "S">>],
     [key |-> <<"v", "e", "r", "t", "i", "c", "a", "l", " ", "p", "u", "t">>,
      code |-> <<"V", "P", "C", "S">>],
     [key |-> <<"p", "c", "s">>,
      code |-> <<"V", "P", "C", "S">>],
     [key |-> <<"v", "p", "c", "s">>,
      code |-> <<"V", "P", "C", "S">>],
     [key |-> <<"v", "e", "r", "t", "i", "c", "a", "l", " ", "p", "u", "t", " ", "d", "e", "b", "i", "t", " ", "s", "p", "r", "e", "a", "d">>,
      code |-> <<"V", "P", "D", "S">>],
     [key |-> <<"p", "u", "t", " ", "d", "e", "b", "i", "t", " ", "s", "p", "r", "e", "a", "d">>,
      code |-> <<"V", "P", "D", "S">>],
     [key |-> <<"v", "e", "r", "t", "i", "c", "a", "l", " ", "p", "u", "t", " ", "d", "e", "b", "i", "t">>,
      code |-> <<"V", "P", "D", "S">>],
     [key |-> <<"p", "d", "s">>,
      code |-> <<"V", "P", "D", "S">>],
     [key |-> <<"v", "p", "d", "s">>,
      code |-> <<"V", "P", "D", "S">>],
     [key |-> <<"v", "e", "r", "t", "i", "c", "a", "l", " ", "c", "a", "l", "l", " ", "c", "r", "e", "d", "i", "t", " ", "s", "p", "r", "e", "a", "d">>,
      code |-> <<"V", "C", "C", "S">>],
     [key |-> <<"c", "a", "l", "l", " ", "c", "r", "e", "d", "i", "t", " ", "s", "p", "r", "e", "a", "d">>,
      code |-> <<"V", "C", "C", "S">>],
     [key |-> <<"v", "e", "r", "t", "i", "c", "a", "l", " ", "c", "a", "l", "l", " ", "c", "r", "e", "d", "i", "t">>,
      code |-> <<"V", "C", "C", "S">>],
     [key |-> <<"v", "e", "r", "t", "i", "c", "a", "l", " ", "c", "a", "l", "l", " ", "s", "p", "r", "e", "a", "d">>,
      code |-> <<"V", "C", "C", "S">>],
     [key |-> <<"c", "a", "l", "l", " ", "v", "e", "r", "t", "i", "c", "a", "l", " ", "c", "r", "e", "d", "i", "t">>,
      code |-> <<"V", "C", "C", "S">>],
     [key |-> <<"c", "a", "l", "l", " ", "v", "e", "r", "t", "i", "c", "a", "l">>,
      code |-> <<"V", "C", "C", "S">>],
     [key |-> <<"v", "e", "r", "t", "i", "c", "a", "l", " ", "c", "a", "l", "l">>,
      code |-> <<"V", "C", "C", "S">>],
     [key |-> <<"c", "c", "s">>,
      code |-> <<"V", "C", "C", "S">>],
     [key |-> <<"v", "c", "c", "s">>,
      code |-> <<"V", "C", "C", "S">>],
     [key |-> <<"s", "h", "o", "r", "t", " ", "s", "t", "r", "a", "d", "d", "l", "e">>,
      code |-> <<"S", "t", "r", "a", "d", "d", "l", "e">>],
     [key |-> <<"s", "t", "r", "a", "d", "d", "l", "e">>,
      code |-> <<"S", "t", "r", "a", "d", "d", "l", "e">>],
     [key |-> <<"s", "h", "o", "r", "t", " ", "s", "t", "r", "a", "n", "g", "l", "e">>,
      code |-> <<"S", "t", "r", "a", "n", "g", "l", "e">>],
     [key |-> <<"s", "t", "r", "a", "n", "g", "l", "e">>,
      code |-> <<"S", "t", "r", "a", "n", "g", "l", "e">>],
     [key |-> <<"j", "a", "d", "e", " ", "l", "i", "z", "a", "r", "d">>,
      code |-> <<"J", "a", "d", "e", "L", "i", "z", "a", "r", "d">>],
     [key |-> <<"j", "a", "d", "e", "l", "i", "z", "a", "r", "d">>,
      code |-> <<"J", "a", "d", "e", "L", "i", "z", "a", "r", "d">>],
     [key |-> <<"j", "a", "d", "e">>,
      code |-> <<"J", "a", "d", "e", "L", "i", "z", "a", "r", "d">>],
     [key |-> <<"r", "e", "v", "e", "r", "s", "e", " ", "j", "a", "d", "e", " ", "l", "i", "z", "a", "r", "d">>,
      code |-> <<"R", "J", "a", "d", "e">>],
     [key |-> <<"r", "e", "v", "e", "r", "s", "e", " ", "j", "a", "d", "e">>,
      code |-> <<"R", "J", "a", "d", "e">>],
     [key |-> <<"r", "j", "a", "d", "e">>,
      code |-> <<"R", "J", "a", "d", "e">>],
     [key |-> <<"z", "e", "r", "o", " ", "e", "x", "t", "r", "i", "n", "s", "i", "c", " ", "b", "a", "c", "k", " ", "r", "a", "t", "i", "o">>,
      code |-> <<"Z", "e", "b", "r", "a">>],
     [key |-> <<"z", "e", "b", "r", "a">>,
      code |-> <<"Z", "e", "b", "r", "a">>],
     [key |-> <<"l", "t", "1", "-", "1", "-", "1">>,
      code |-> <<"1", "-", "1", "-", "1">>],
     [key |-> <<"1", "-", "1", "-", "1">>,
      code |-> <<"1", "-", "1", "-", "1">>],
     [key |-> <<"1", "1", "1">>,
      code |-> <<"1", "-", "1", "-", "1">>],
     [key |-> <<"l", "t", "1", "-", "1", "-", "2">>,
      code |-> <<"1", "-", "1", "-", "2">>],
     [key |-> <<"1", "-", "1", "-", "2">>,
      code |-> <<"1", "-", "1", "-", "2">>],
     [key |-> <<"1", "1", "2">>,
      code |-> <<"1", "-", "1", "-", "2">>],
     [key |-> <<"r", "o", "l", "l", "i", "n", "g", " ", "d", "i", "a", "g", "o", "n", "a", "l", " ", "p", "u", "t", "s">>,
      code |-> <<"R", "D", "P">>],
     [key |-> <<"r", "o", "l", "l", "i", "n", "g", " ", "d", "i", "a", "g", "o", "n", "a", "l">>,
      code |-> <<"R", "D", "P">>],
     [key |-> <<"d", "i", "a", "g", "o", "n", "a", "l", " ", "p", "u", "t", "s">>,
      code |-> <<"R", "D", "P">>],
     [key |-> <<"r", "d", "p">>,
      code |-> <<"R", "D", "P">>],
     [key |-> <<"s", "h", "o", "r", "t", " ", "l", "e", "a", "p", "s">>,
      code |-> <<"L", "E", "A", "P", "P", "u", "t">>],
     [key |-> <<"l", "e", "a", "p", " ", "p", "u", "t">>,
      code |-> <<"L", "E", "A", "P", "P", "u", "t">>],
     [key |-> <<"l", "e", "a", "p", "s", " ", "p", "u", "t">>,
      code |-> <<"L", "E", "A", "P", "P", "u", "t">>],
     [key |-> <<"l", "e", "a", "p", "p", "u", "t">>,
      code |-> <<"L", "E", "A", "P", "P", "u", "t">>],
     [key |-> <<"l", "e", "a", "p", "s", " ", "c", "a", "l", "l", " ", "s", "p", "r", "e", "a", "d">>,
      code |-> <<"L", "e", "a", "p", "C", "S">>],
     [key |-> <<"l", "e", "a", "p", " ", "c", "a", "l", "l", " ", "s", "p", "r", "e", "a", "d">>,
      code |-> <<"L", "e", "a", "p", "C", "S">>],
     [key |-> <<"l", "e", "a", "p", "c", "s">>,
      code |-> <<"L", "e", "a", "p", "C", "S">>],
     [key |-> <<"p", "u", "t", " ", "b", "u", "t", "t", "e", "r", "f", "l", "y">>,
      code |-> <<"P", "B", "u", "t", "t", "e", "r", "f", "l", "y">>],
     [key |-> <<"p", "b", "u", "t", "t", "e", "r", "f", "l", "y">>,
      code |-> <<"P", "B", "u", "t", "t", "e", "r", "f", "l", "y">>],
     [key |-> <<"c", "a", "l", "l", " ", "b", "u", "t", "t", "e", "r", "f", "l", "y">>,
      code |-> <<"C", "B", "u", "t", "t", "e", "r", "f", "l", "y">>],
     [key |-> <<"c", "b", "u", "t", "t", "e", "r", "f", "l", "y">>,
      code |-> <<"C", "B", "u", "t", "t", "e", "r", "f", "l", "y">>],
     [key |-> <<"v", "i", "x", " ", "u", "p", "t", "r", "e", "n", "d">>,
      code |-> <<"V", "I", "X">>],
     [key |-> <<"v", "i", "x">>,
      code |-> <<"V", "I", "X">>] >>

\* STRATEGY_KEYWORDS: the ordered keyword rules
STRATEGY_KEYWORDS ==
  << [keywords |-> <<<<"p", "u", "t">>, <<"c", "r", "e", "d", "i", "t">>, <<"s", "p", "r", "e", "a", "d">>>>,
      code |-> <<"V", "P", "C", "S">>],
     [keywords |-> <<<<"p", "u", "t">>, <<"d", "e", "b", "i", "t">>, <<"s", "p", "r", "e", "a", "d">>>>,
      code |-> <<"V", "P", "D", "S">>],
     [keywords |-> <<<<"c", "a", "l", "l">>, <<"c", "r", "e", "d", "i", "t">>, <<"s", "p", "r", "e", "a", "d">>>>,
      code |-> <<"V", "C", "C", "S">>],
     [keywords |-> <<<<"c", "a", "l", "l">>, <<"d", "e", "b", "i", "t">>, <<"s", "p", "r", "e", "a", "d">>>>,
      code |-> <<"V", "C", "D", "S">>],
     [keywords |-> <<<<"i", "r", "o", "n">>, <<"c", "o", "n", "d", "o", "r">>>>,
      code |-> <<"I", "C">>],
     [keywords |-> <<<<"i", "r", "o", "n">>, <<"b", "u", "t", "t", "e", "r", "f", "l", "y">>>>,
      code |-> <<"I", "B">>],
     [keywords |-> <<<<"p", "u", "t">>, <<"b", "u", "t", "t", "e", "r", "f", "l", "y">>>>,
      code |-> <<"P", "B", "u", "t", "t", "e", "r", "f", "l", "y">>],
     [keywords |-> <<<<"c", "a", "l", "l">>, <<"b", "u", "t", "t", "e", "r", "f", "l", "y">>>>,
      code |-> <<"C", "B", "u", "t", "t", "e", "r", "f", "l", "y">>],
     [keywords |-> <<<<"j", "a", "d", "e">>, <<"l", "i", "z", "a", "r", "d">>>>,
      code |-> <<"J", "a", "d", "e", "L", "i", "z", "a", "r", "d">>],
     [keywords |-> <<<<"r", "e", "v", "e", "r", "s", "e">>, <<"j", "a", "d", "e">>>>,
      code |-> <<"R", "J", "a", "d", "e">>],
     [keywords |-> <<<<"r", "o", "l", "l", "i", "n", "g">>, <<"d", "i", "a", "g", "o", "n", "a", "l">>>>,
      code |-> <<"R", "D", "P">>],
     [keywords |-> <<<<"d", "i", "a", "g", "o", "n", "a", "l">>, <<"p", "u", "t">>>>,
      code |-> <<"R", "D", "P">>],
     [keywords |-> <<<<"c", "a", "s", "h">>, <<"s", "e", "c", "u", "r", "e", "d">>>>,
      code |-> <<"C", "S", "P">>],
     [keywords |-> <<<<"c", "o", "v", "e", "r", "e", "d">>, <<"c", "a", "l", "l">>>>,
      code |-> <<"C", "C">>],
     [keywords |-> <<<<"n", "a", "k", "e", "d">>, <<"p", "u", "t">>>>,
      code |-> <<"N", "P">>],
     [keywords |-> <<<<"l", "e", "a", "p">>, <<"c", "a", "l", "l">>>>,
      code |-> <<"L", "e", "a", "p", "C", "S">>],
     [keywords |-> <<<<"l", "e", "a", "p">>, <<"p", "u", "t">>>>,
      code |-> <<"L", "E", "A", "P", "P", "u", "t">>],
     [keywords |-> <<<<"p", "u", "t">>, <<"v", "e", "r", "t", "i", "c", "a", "l">>>>,
      code |-> <<"V", "P", "C", "S">>],
     [keywords |-> <<<<"v", "e", "r", "t", "i", "c", "a", "l">>, <<"p", "u", "t">>>>,
      code |-> <<"V", "P", "C", "S">>],
     [keywords |-> <<<<"c", "a", "l", "l">>, <<"v", "e", "r", "t", "i", "c", "a", "l">>>>,
      code |-> <<"V", "C", "C", "S">>],
     [keywords |-> <<<<"v", "e", "r", "t", "i", "c", "a", "l">>, <<"c", "a", "l", "l">>>>,
      code |-> <<"V", "C", "C", "S">>],
     [keywords |-> <<<<"s", "t", "r", "a", "d", "d", "l", "e">>>>,
      code |-> <<"S", "t", "r", "a", "d", "d", "l", "e">>],
     [keywords |-> <<<<"s", "t", "r", "a", "n", "g", "l", "e">>>>,
      code |-> <<"S", "t", "r", "a", "n", "g", "l", "e">>],
     [keywords |-> <<<<"c", "o", "n", "d", "o", "r">>>>,
      code |-> <<"I", "C">>],
     [keywords |-> <<<<"z", "e", "b", "r", "a">>>>,
      code |-> <<"Z", "e", "b", "r", "a">>] >>

\* keyword in lookup_key
IsSubstring(kw, s) ==
  \E i \in 0..(Len(s) - Len(kw)) : SubSeq(s, i + 1, i + Len(kw)) = kw

\* short_codes = set(STRATEGY_MAPPING.values())
short_codes == {STRATEGY_MAPPING[i].code : i \in 1..Len(STRATEGY_MAPPING)}

\* mutant: one keyword of the rule is enough
RuleMatchesAny(rule, lookup_key) ==
  \E j \in 1..Len(rule.keywords) : IsSubstring(rule.keywords[j], lookup_key)

\* all(keyword in lookup_key for keyword in keywords)
RuleMatches(rule, lookup_key) ==
  \A j \in 1..Len(rule.keywords) : IsSubstring(rule.keywords[j], lookup_key)

\* mutant: a short code is returned as it was typed, not in its canonical casing
map_strategy_name_as_typed(strategy) ==
  LET lookup_key == Strip(Lower(strategy))
      exact == {i \in 1..Len(STRATEGY_MAPPING) : STRATEGY_MAPPING[i].key = lookup_key}
      rules == {i \in 1..Len(STRATEGY_KEYWORDS) : RuleMatches(STRATEGY_KEYWORDS[i], lookup_key)}
  IN IF strategy = <<>> THEN strategy
     ELSE IF \E code \in short_codes : lookup_key = Lower(code)
     THEN lookup_key
     ELSE IF exact # {} THEN STRATEGY_MAPPING[CHOOSE i \in exact : TRUE].code
     ELSE IF rules # {}
     THEN STRATEGY_KEYWORDS[CHOOSE i \in rules : \A j \in rules : i <= j].code
     ELSE strategy

\* map_strategy_name(strategy), for a text strategy
map_strategy_name(strategy) ==
  LET lookup_key == Strip(Lower(strategy))
      exact == {i \in 1..Len(STRATEGY_MAPPING) : STRATEGY_MAPPING[i].key = lookup_key}
      rules == {i \in 1..Len(STRATEGY_KEYWORDS) : RuleMatches(STRATEGY_KEYWORDS[i], lookup_key)}
  IN IF strategy = <<>> THEN strategy
     ELSE IF \E code \in short_codes : lookup_key = Lower(code)
     THEN CHOOSE code \in short_codes : lookup_key = Lower(code)
     ELSE IF exact # {} THEN STRATEGY_MAPPING[CHOOSE i \in exact : TRUE].code
     ELSE IF rules # {}
     THEN STRATEGY_KEYWORDS[CHOOSE i \in rules : \A j \in rules : i <= j].code
     ELSE strategy

(***************************************************************************)
(* Trades and their sort key                                               *)
(***************************************************************************)
TradeKeys ==
  {"open_date", "date", "open_time", "time", "close_date", "close_time",
   "strategy", "credit", "debit", "contracts", "open_fees", "fees",
   "close_fees", "sold_call_strike", "sold_put_strike", "width", "expired"}

\* a trade object holding the given keys only
Trade(fields) == [key \in TradeKeys |-> IF key \in DOMAIN fields THEN fields[key] ELSE Absent]

\* trade.get(key, default)
Get(trade, key, default) == IF trade[key] = Absent THEN default ELSE trade[key]

\* %H: 2[0-3]|[0-1]\d|\d
FieldHour24(f) ==
  IF Len(f) \in {1, 2} /\ AllDigits(f) /\ NatOf(f) \in 0..23 THEN NatOf(f) ELSE -1

\* %M: [0-5]\d|\d
FieldMinute(f) ==
  IF Len(f) \in {1, 2} /\ AllDigits(f) /\ NatOf(f) \in 0..59 THEN NatOf(f) ELSE -1

\* %S: 6[0-1]|[0-5]\d|\d
FieldSecond(f) ==
  IF Len(f) \in {1, 2} /\ AllDigits(f) /\ NatOf(f) \in 0..61 THEN NatOf(f) ELSE -1

\* the time formats of parse_trade_datetime, in its order:
\* clock 12 = %I with %p, gap = whitespace before %p, secs = %S present
time_formats ==
  << [clock |-> 12, gap |-> TRUE, secs |-> FALSE],
     [clock |-> 12, gap |-> FALSE, secs |-> FALSE],
     [clock |-> 24, gap |-> FALSE, secs |-> FALSE],
     [clock |-> 24, gap |-> FALSE, secs |-> TRUE],
     [clock |-> 12, gap |-> TRUE, secs |-> TRUE] >>

NoTime == -1

\* datetime.strptime(text, fmt).time() in seconds after midnight; NoTime = ValueError
StrpTime(text, fmt) ==
  LET n == Len(text)
      suffix == IF n >= 2 THEN SubSeq(text, n - 1, n) ELSE <<>>
      pm == suffix = <<"P", "M">> \/ suffix = <<"p", "m">>
      meridian == pm \/ suffix = <<"A", "M">> \/ suffix = <<"a", "m">>
      body == IF fmt.clock = 12 /\ meridian THEN SubSeq(text, 1, n - 2) ELSE text
      digits == IF fmt.clock = 12 THEN RStrip(body) ELSE body
      f == Split(digits, ":")
      hour == IF fmt.clock = 12 THEN FieldMonth(f[1]) ELSE FieldHour24(f[1])
      minute == FieldMinute(f[2])
      second == IF fmt.secs THEN FieldSecond(f[3]) ELSE 0
      hour24 == IF fmt.clock = 24 THEN hour
                ELSE IF pm THEN (IF hour = 12 THEN 12 ELSE hour + 12)
                ELSE (IF hour = 12 THEN 0 ELSE hour)
  IN IF fmt.clock = 12 /\ ~meridian THEN NoTime
     ELSE IF fmt.clock = 12 /\ (Len(body) > Len(digits)) # fmt.gap THEN NoTime
     ELSE IF Len(f) # (IF fmt.secs THEN 3 ELSE 2) THEN NoTime
     ELSE IF hour < 0 \/ minute < 0 \/ second < 0 \/ second > 59 THEN NoTime
     ELSE hour24 * 3600 + minute * 60 + second

RECURSIVE TryTimeFormats(_, _)
TryTimeFormats(text, i) ==
  IF i > Len(time_formats) THEN NoTime
  ELSE IF StrpTime(text, time_formats[i]) # NoTime THEN StrpTime(text, time_formats[i])
  ELSE TryTimeFormats(text, i + 1)

\* datetime.max and datetime.max.time() as sort keys: after every parsed value
DateKeyMax == 2 * DaysFromCivil(9999, 12, 31) + 1
TimeKeyMax == 24 * 3600

\* date_key of parse_trade_datetime
DateKey(trade) ==
  LET open_date_str == Get(trade, "open_date", Get(trade, "date", EmptyText))
      parsed_date == parse_date_string(open_date_str.s)
  IN IF Truthy(open_date_str) /\ parsed_date.ok
     THEN 2 * DaysFromCivil(parsed_date.y, parsed_date.m, parsed_date.d)
     ELSE DateKeyMax

\* time_key of parse_trade_datetime
TimeKey(trade) ==
  LET open_time_str == Get(trade, "open_time", Get(trade, "time", EmptyText))
      parsed_time == TryTimeFormats(Upper(Strip(open_time_str.s)), 1)
  IN IF Truthy(open_time_str) /\ parsed_time # NoTime THEN parsed_time ELSE TimeKeyMax

\* parse_trade_datetime(a) < parse_trade_datetime(b), as tuples
KeyLess(a, b) ==
  \/ DateKey(a) < DateKey(b)
  \/ DateKey(a) = DateKey(b) /\ TimeKey(a) < TimeKey(b)

RECURSIVE InsertSorted(_, _)
\* t placed after every element that is not greater than it
InsertSorted(sorted, t) ==
  IF sorted = <<>> THEN <<t>>
  ELSE IF KeyLess(t, Head(sorted)) THEN <<t>> \o sorted
  ELSE <<Head(sorted)>> \o InsertSorted(Tail(sorted), t)

RECURSIVE SortFrom(_, _, _)
SortFrom(trades, i, sorted) ==
  IF i > Len(trades) THEN sorted
  ELSE SortFrom(trades, i + 1, InsertSorted(sorted, trades[i]))

\* trades_list.sort(key=parse_trade_datetime): a stable ascending sort
SortTrades(trades) == SortFrom(trades, 1, <<>>)

\* parse_trade_datetime calls .strip() on a truthy open date (in
\* parse_date_string) and on a truthy open time; a value that is not text has
\* no such method and the AttributeError is caught by neither function
KeyRaises(trade) ==
  LET open_date_str == Get(trade, "open_date", Get(trade, "date", EmptyText))
      open_time_str == Get(trade, "open_time", Get(trade, "time", EmptyText))
  IN \/ Truthy(open_date_str) /\ open_date_str.tag # "text"
     \/ Truthy(open_time_str) /\ open_time_str.tag # "text"

\* the sort raises when the key function raises on one of the trades
SortRaises(trades) == \E j \in 1..Len(trades) : KeyRaises(trades[j])

\* mutant: the string is compared without lower-casing it
IsExpiredCaseSensitive(trade) ==
  LET expired_raw == Get(trade, "expired", BoolV(FALSE))
  IN IF expired_raw.tag = "text"
     THEN expired_raw.s \in {<<"t", "r", "u", "e">>, <<"1">>, <<"y", "e", "s">>}
     ELSE Truthy(expired_raw)

\* lines 1142-1147: is_expired
IsExpired(trade) ==
  LET expired_raw == Get(trade, "expired", BoolV(FALSE))
  IN IF expired_raw.tag = "text"
     THEN Lower(expired_raw.s) \in {<<"t", "r", "u", "e">>, <<"1">>, <<"y", "e", "s">>}
     ELSE Truthy(expired_raw)

\* debit == 0
IsZero(v) == v.tag \in {"int", "float", "bool"} /\ v.m = 0

TxtMarketClose == <<"4", ":", "0", "0", " ", "P", "M">>

\* lines 1131-1185: the values array of one trade, in COLUMN_ORDER
TradeValues(trade) ==
  LET raw_strategy == Get(trade, "strategy", EmptyText)
      mapped_strategy == IF raw_strategy.tag = "text"
                         THEN Text(map_strategy_name(raw_strategy.s)) ELSE raw_strategy
      open_date == Get(trade, "open_date", Get(trade, "date", EmptyText))
      open_time == Get(trade, "open_time", Get(trade, "time", EmptyText))
      close_date0 == Get(trade, "close_date", EmptyText)
      close_time0 == Get(trade, "close_time", EmptyText)
      debit0 == Get(trade, "debit", EmptyText)
      auto == ~Truthy(close_date0) /\ (IsExpired(trade) \/ IsZero(debit0))
      close_date == IF auto THEN open_date ELSE close_date0
      close_time == IF auto /\ ~Truthy(close_time0) THEN Text(TxtMarketClose) ELSE close_time0
      debit == IF ~Truthy(close_date0) /\ IsExpired(trade) /\ debit0 = EmptyText
               THEN IntV(0) ELSE debit0
  IN << open_date, open_time, close_date, close_time, mapped_strategy,
        Get(trade, "credit", EmptyText), debit, Get(trade, "contracts", EmptyText),
        Get(trade, "open_fees", Get(trade, "fees", EmptyText)),
        Get(trade, "close_fees", EmptyText), Get(trade, "sold_call_strike", EmptyText),
        Get(trade, "sold_put_strike", EmptyText), Get(trade, "width", EmptyText) >>

RECURSIVE LastDateFrom(_, _)
\* lines 1084-1111: the scan of column C from the bottom for a date-bearing cell;
\* row 0 stands for "none found"
LastDateFrom(column_values, i) ==
  LET cell_value == column_values[i]
  IN IF i < 1 THEN [row |-> 0, reference_date |-> <<>>]
     ELSE IF /\ cell_value.tag \in {"int", "float", "bool"}
             /\ NumLe(Number(MinDateSerial, 0), PyFloat(cell_value))
             /\ NumLe(PyFloat(cell_value), Number(MaxDateSerial, 0))
     THEN [row |-> i,
           reference_date |-> FormatMDY(excel_serial_to_date(PyFloat(cell_value)))]
     ELSE IF /\ cell_value.tag = "text"
             /\ cell_value.s # <<>>
             /\ parse_date_string(cell_value.s).ok
     THEN [row |-> i, reference_date |-> cell_value.s]
     ELSE LastDateFrom(column_values, i - 1)

LastDate(column_values) == LastDateFrom(column_values, Len(column_values))

(***************************************************************************)
(* excel.logTrades                                                         *)
(***************************************************************************)
LogResponse(status, reason, results, errors) ==
  [NoResponse EXCEPT !.status = status, !.reason = reason,
                     !.results = results, !.errors = errors]

LogDone(p, status, reason) ==
  tl' = [tl EXCEPT ![p].pc = "done",
                   ![p].response = LogResponse(status, reason, tl[p].results, tl[p].errors)]

\* lines 1234-1261: the response after the loop
FinalStatus(results, errors) ==
  IF errors # <<>> /\ results = <<>> THEN "error"
  ELSE IF errors # <<>> THEN "partial_success"
  ELSE "success"

\* mutant: the offset is the 0-based index
CurrentOffsetZeroBased(pos) == pos - 1

\* current_offset = 1 + i, for the trade at 1-based position pos
CurrentOffset(pos) == pos

\* lines 965-1029 and 1263-1268: the trades are parsed and sorted, an exception
\* of the sort ends the call; reference_date may be given
LogInvoke(p, tradeInputs, references) ==
  /\ tl[p].pc \in {"idle", "done"}
  /\ invLeft > 0
  /\ invLeft' = invLeft - 1
  /\ calls' = [calls EXCEPT ![p] = <<>>]
  /\ im' = [im EXCEPT ![p] = ImplIdle]
  /\ \E trades \in tradeInputs, reference_date \in references :
       LET start == [ToolIdle EXCEPT !.kind = "log", !.inv = invLeft,
                                     !.input = trades.list,
                                     !.reference_date = reference_date,
                                     !.derived = (reference_date = <<>>)]
       IN tl' = [tl EXCEPT ![p] =
            IF trades.json # "list"
            THEN [start EXCEPT !.pc = "done",
                               !.response = LogResponse("error", "bad_json", <<>>, <<>>)]
            ELSE IF Len(trades.list) = 0
            THEN [start EXCEPT !.pc = "done",
                               !.response = LogResponse("warning", "no_trades", <<>>, <<>>)]
            ELSE IF SortRaises(trades.list)
            THEN [start EXCEPT !.pc = "done",
                               !.response = LogResponse("error", "exception", <<>>, <<>>)]
            ELSE [start EXCEPT !.trades = SortTrades(trades.list),
                               !.pc = IF reference_date = <<>>
                                      THEN "anchor_resolve" ELSE "loop"]]
  /\ UNCHANGED <<sheet, hist, budget>>

\* lines 1032-1038: the document is resolved for the anchor search
LogAnchorResolve(p) ==
  /\ tl[p].pc = "anchor_resolve"
  /\ \/ /\ Issue(p, "resolve", <<>>, "ok")
        /\ tl' = [tl EXCEPT ![p].pc = "anchor_used_range"]
        /\ UNCHANGED budget
     \/ /\ Fault
        /\ Issue(p, "resolve", <<>>, "rejected")
        /\ LogDone(p, "error", "resolve")
  /\ UNCHANGED <<sheet, im, hist, invLeft>>

\* lines 1046-1066: the used-range query of the anchor search
LogAnchorUsedRange(p) ==
  /\ tl[p].pc = "anchor_used_range"
  /\ \/ /\ Issue(p, "used_range", <<>>, "ok")
        /\ IF SheetEmpty(UsedRowCount(sheet))
           THEN LogDone(p, "error", "empty")
           ELSE tl' = [tl EXCEPT ![p].pc = "anchor_read"]
        /\ UNCHANGED budget
     \/ /\ Fault
        /\ Issue(p, "used_range", <<>>, "rejected")
        /\ LogDone(p, "error", "used_range")
     \/ /\ Fault
        /\ Issue(p, "used_range", <<>>, "transport")
        /\ LogDone(p, "error", "exception")
  /\ UNCHANGED <<sheet, im, hist, invLeft>>

\* lines 1068-1117: column C is read and scanned from the bottom for a date
LogAnchorRead(p) ==
  LET row_count == UsedRowCount(sheet)
      addr == <<"C", "1", ":", "C">> \o IntStr(row_count)
      last == LastDate(ReadColumn(sheet, <<"C">>, row_count))
  IN /\ tl[p].pc = "anchor_read"
     /\ \/ /\ Issue(p, "read", addr, "ok")
           /\ IF last.reference_date = <<>>
              THEN LogDone(p, "error", "no_date")
              ELSE tl' = [tl EXCEPT ![p].pc = "loop",
                                    ![p].reference_date = last.reference_date,
                                    ![p].last_date_row = last.row]
           /\ UNCHANGED budget
        \/ /\ Fault
           /\ Issue(p, "read", addr, "rejected")
           /\ LogDone(p, "error", "read")
        \/ /\ Fault
           /\ Issue(p, "read", addr, "transport")
           /\ LogDone(p, "error", "exception")
     /\ UNCHANGED <<sheet, im, hist, invLeft>>

\* lines 1125-1205 and 1263-1268: the next trade's values are built and the
\* implementation is called, or the exception of the strategy mapping ends the batch
LogStartTrade(p) ==
  LET pos == tl[p].i + 1
      values == TradeValues(tl[p].trades[pos])
      raw_strategy == Get(tl[p].trades[pos], "strategy", EmptyText)
  IN /\ tl[p].kind = "log"
     /\ tl[p].pc = "loop"
     /\ tl[p].i < Len(tl[p].trades)
     /\ IF raw_strategy.tag # "text" /\ Truthy(raw_strategy)
        THEN \* strategy.lower() of map_strategy_name raises AttributeError
             /\ tl' = [tl EXCEPT ![p].pc = "done", ![p].i = pos,
                                 ![p].response = LogResponse("error", "exception", <<>>, <<>>)]
             /\ UNCHANGED im
        ELSE /\ tl' = [tl EXCEPT ![p].pc = "await", ![p].i = pos, ![p].values = values]
             /\ im' = [im EXCEPT ![p] =
                         ImplCall(<<"C">>, tl[p].reference_date, COLUMN_ORDER, values,
                                  CurrentOffset(pos))]
     /\ UNCHANGED <<sheet, calls, hist, budget, invLeft>>

\* lines 1207-1231 and 1263-1268: the trade's outcome is recorded, or the
\* exception of the implementation ends the batch
LogAfterImpl(p) ==
  /\ tl[p].kind = "log"
  /\ tl[p].pc = "await"
  /\ im[p].pc \in {"return", "raised"}
  /\ IF im[p].pc = "raised"
     THEN tl' = [tl EXCEPT ![p].pc = "done",
                           ![p].response = LogResponse("error", "exception", <<>>, <<>>)]
     ELSE IF im[p].result.status = "success"
     THEN tl' = [tl EXCEPT ![p].pc = "loop",
                           ![p].results = Append(@, [trade_index |-> tl[p].i,
                                                     row |-> im[p].result.target_row])]
     ELSE tl' = [tl EXCEPT ![p].pc = "loop",
                           ![p].errors = Append(@, [trade_index |-> tl[p].i,
                                                    error |-> im[p].result.reason])]
  /\ UNCHANGED <<sheet, im, calls, hist, budget, invLeft>>

\* lines 1233-1261: the batch response
LogFinish(p) ==
  /\ tl[p].kind = "log"
  /\ tl[p].pc = "loop"
  /\ tl[p].i >= Len(tl[p].trades)
  /\ LogDone(p, FinalStatus(tl[p].results, tl[p].errors), "batch")
  /\ UNCHANGED <<sheet, im, calls, hist, budget, invLeft>>

LogStep(p) ==
  \/ LogAnchorResolve(p)
  \/ LogAnchorUsedRange(p)
  \/ LogAnchorRead(p)
  \/ LogStartTrade(p)
  \/ LogAfterImpl(p)
  \/ LogFinish(p)

(***************************************************************************)
(* Inputs of excel.logTrades                                               *)
(***************************************************************************)
\* the longest list of trades
MaxTrades == 3
\* store faults injected into one logTrades run
MaxLogFaults == 1

TxtJan2 == <<"1", "/", "2", "/", "2", "0", "2", "6">>
TxtJan3 == <<"1", "/", "3", "/", "2", "0", "2", "6">>
TxtJan5 == <<"1", "/", "5", "/", "2", "0", "2", "6">>
Txt9am == <<"9", ":", "0", "0", " ", "A", "M">>
Txt3pm == <<"3", ":", "0", "0", " ", "P", "M">>
Txt8am == <<"8", ":", "0", "0", " ", "A", "M">>
TxtSoon == <<"s", "o", "o", "n">>
TxtIronCondor == <<"I", "r", "o", "n", " ", "C", "o", "n", "d", "o", "r">>
TxtPutCreditSpread == <<"p", "u", "t", " ", "c", "r", "e", "d", "i", "t", " ", "s", "p", "r", "e", "a", "d">>
TxtYes == <<"Y", "e", "s">>

TradeJan3At9 ==
  Trade([open_date |-> Text(TxtJan3), open_time |-> Text(Txt9am),
         strategy |-> Text(TxtIronCondor), credit |-> FloatV(6, 1),
         contracts |-> IntV(25), expired |-> BoolV(TRUE)])

TradeJan2At3 ==
  Trade([open_date |-> Text(TxtJan2), open_time |-> Text(Txt3pm),
         strategy |-> Text(TxtPutCreditSpread), debit |-> IntV(0)])

TradeJan3At8 ==
  Trade([date |-> Text(TxtJan3), time |-> Text(Txt8am),
         close_date |-> Text(TxtJan5), debit |-> FloatV(1, 1),
         expired |-> Text(TxtYes)])

\* a trade opened on the date that the sheet already holds
TradeDec22 ==
  Trade([open_date |-> Text(TxtDate1), open_time |-> Text(Txt9am),
         strategy |-> Text(TxtIronCondor)])

TradeNoDate ==
  Trade([open_date |-> Text(TxtSoon), open_time |-> Text(Txt3pm)])

Truncate(l) == SubSeq(l, 1, IF Len(l) < MaxTrades THEN Len(l) ELSE MaxTrades)

LogTradeLists ==
  { <<TradeJan3At9, TradeJan2At3, TradeJan3At8>>,
    Truncate(<<TradeNoDate, TradeDec22, TradeJan2At3, TradeJan3At9>>),
    <<TradeDec22>> }

LogTradeInputs == {JsonBad, JsonNotList, JsonList(<<>>)} \cup {JsonList(l) : l \in LogTradeLists}

\* reference_date omitted, or a date that no row of column C holds
LogReferences == {<<>>, TxtJan5}

\* column C of the sheets logTrades runs on
LogColumns ==
  { <<Text(TxtTrade1), IntV(46013)>>,
    <<IntV(46013), FloatV(460135, 1), EmptyText>>,
    <<Text(TxtDate1), Null, Text(TxtDate1)>>,
    <<Text(TxtTrade1)>>,
    <<BoolV(TRUE)>>,
    <<>> }

InitLog ==
  /\ sheet \in {SheetOfColumnC(col) : col \in LogColumns}
  /\ tl = [p \in Procs |-> ToolIdle]
  /\ im = [p \in Procs |-> ImplIdle]
  /\ calls = [p \in Procs |-> <<>>]
  /\ hist = {}
  /\ budget = MaxLogFaults
  /\ invLeft = 1

NextLog ==
  \/ LogInvoke("p1", LogTradeInputs, LogReferences)
  \/ LogStep("p1")
  \/ ImplStep("p1")

SpecLog == InitLog /\ [][NextLog]_vars

(***************************************************************************)
(* Repeated excel.logTrades invocations on one sheet                       *)
(***************************************************************************)
\* logTrades invocations run one after the other
MaxInvocations == 2
\* store faults injected over the invocations
MaxAppendFaults == 1

AppendTradeInputs == {JsonList(<<TradeDec22>>), JsonList(<<TradeJan2At3>>)}

InitAppend ==
  /\ sheet = SheetOfColumnC(<<Text(TxtTrade1), IntV(46013)>>)
  /\ tl = [p \in Procs |-> ToolIdle]
  /\ im = [p \in Procs |-> ImplIdle]
  /\ calls = [p \in Procs |-> <<>>]
  /\ hist = {}
  /\ budget = MaxAppendFaults
  /\ invLeft = MaxInvocations

NextAppend ==
  \/ LogInvoke("p1", AppendTradeInputs, {<<>>})
  \/ LogStep("p1")
  \/ ImplStep("p1")

SpecAppend == InitAppend /\ [][NextAppend]_vars

(***************************************************************************)
(* Properties of excel.logTrades                                           *)
(***************************************************************************)
Occurrences(seq, x) == Cardinality({j \in 1..Len(seq) : seq[j] = x})

\* C5: without referenceDate the anchor row is the bottom-most row of column
\* C that holds a date, so the i-th sorted trade is written to that row + i.
C5_WritesBelowLastDateRow ==
  \A p \in Procs :
    (tl[p].kind = "log" /\ tl[p].derived /\ tl[p].last_date_row # 0)
    => \A j \in 1..Len(calls[p]) :
         calls[p][j].kind = "write"
         => AddrRowText(calls[p][j].addr) = IntStr(tl[p].last_date_row + calls[p][j].trade)

\* C6: over a sequence of logTrades invocations without referenceDate and
\* with no other writer, no invocation writes into a row that an earlier
\* invocation wrote a trade into.
C6_NoRowWrittenByTwoInvocations ==
  \A a \in hist : \A b \in hist : a.row = b.row => a.inv = b.inv

\* C7: the trades are processed in ascending order of (open date, open time)
\* and the i-th trade in that order gets row offset i, so its cells target the
\* row that the lookup locates for the reference date + i, whatever happened
\* to the earlier trades (which row the lookup locates for a derived
\* reference date is the subject of C5); the trades
\* (1/3 9:00 AM, 1/2 3:00 PM, 1/3 8:00 AM) are processed as 1/2 3:00 PM,
\* 1/3 8:00 AM, 1/3 9:00 AM.  The order of the list is examined before the
\* first trade and whenever the loop has just handed a trade to the lookup.
C7_SortedOrderAndOffsets ==
  \A p \in Procs :
    (tl[p].kind = "log" /\ tl[p].trades # <<>>)
    => LET trades == tl[p].trades
           input == tl[p].input
           writes == ImplWrites(p)
           dkey == [j \in 1..Len(trades) |-> DateKey(trades[j])]
           tkey == [j \in 1..Len(trades) |-> TimeKey(trades[j])]
           row == IntStr(im[p].found_row + tl[p].i)
       IN /\ Len(trades) = Len(input)
          /\ (tl[p].i = 0 \/ im[p].pc = "check") =>
               /\ \A j \in 1..Len(input) :
                    Occurrences(trades, input[j]) = Occurrences(input, input[j])
               /\ \A a \in 1..Len(trades) : \A b \in (a + 1)..Len(trades) :
                    \/ dkey[a] < dkey[b]
                    \/ dkey[a] = dkey[b] /\ tkey[a] <= tkey[b]
          /\ input = <<TradeJan3At9, TradeJan2At3, TradeJan3At8>>
               => trades = <<TradeJan2At3, TradeJan3At8, TradeJan3At9>>
          /\ tl[p].i >= 1 =>
               /\ im[p].row_offset = tl[p].i
               /\ im[p].values_list[1] =
                    Get(trades[tl[p].i], "open_date", Get(trades[tl[p].i], "date", EmptyText))
               /\ \A j \in 1..Len(writes) : AddrRowText(writes[j].addr) = row
          /\ \A j \in 2..Len(calls[p]) : calls[p][j - 1].trade <= calls[p][j].trade

C7_Witness ==
  /\ tl["p1"].input = <<TradeJan3At9, TradeJan2At3, TradeJan3At8>>
  /\ tl["p1"].i = 3
  /\ tl["p1"].errors # <<>>
  /\ im["p1"].found_row = 2
  /\ Len(ImplWrites("p1")) = 13
  /\ ImplWrites("p1")[1].addr = <<"C", "5">>
  /\ sheet[5][<<"C">>] = Text(TxtJan3)
  /\ sheet[5][<<"E">>] = Text(Txt9am)

(***************************************************************************)
(* Further properties of excel.updateRowByLookup                           *)
(***************************************************************************)
\* the addresses of the calls of a sequence
Addrs(seq) == [j \in 1..Len(seq) |-> seq[j].addr]

\* the target columns name pairwise different cells
DistinctColumns(cols) ==
  \A a \in 1..Len(cols) : \A b \in 1..Len(cols) : a # b => Upper(cols[a]) # Upper(cols[b])

\* C11: no rollback: after any run that reached the write phase, the cells
\* listed as updated are exactly the cells whose write succeeded, the cells
\* listed in errors are exactly the cells whose write was rejected, the two
\* lists together cover every (column, value) pair, and every successfully
\* written cell holds its written value in the store.  Stated for target
\* columns that name pairwise different cells.
C11_ListsMatchWritesNoRollback ==
  \A p \in Procs :
    (tl[p].kind = "update" /\ tl[p].pc = "done" /\ im[p].found_row # 0
       /\ DistinctColumns(im[p].target_columns_list))
    => LET w == ImplWrites(p)
           ok == SelectSeq(w, LAMBDA c : c.outcome = "ok")
           bad == SelectSeq(w, LAMBDA c : c.outcome = "rejected")
           res == tl[p].response.impl
       IN /\ res.updated_cells = Addrs(ok)
          /\ [j \in 1..Len(res.errors) |-> res.errors[j].cell] = Addrs(bad)
          /\ Len(res.updated_cells) + Len(res.errors) = Len(im[p].target_columns_list)
          /\ \A j \in 1..Len(w) :
               w[j].outcome = "ok"
               => sheet[AddrRow(w[j].addr)][AddrCol(w[j].addr)] = im[p].values_list[j]

\* C14: every cell write that updateRowByLookup issues targets a row number
\* >= 1, for every located row and every row offset the tool accepts.
C14_WritesTargetRowAtLeastOne ==
  \A p \in Procs :
    tl[p].kind = "update"
    => \A j \in 1..Len(calls[p]) :
         calls[p][j].kind = "write"
         => /\ AllDigits(AddrRowText(calls[p][j].addr))
            /\ AddrRow(calls[p][j].addr) >= 1

(***************************************************************************)
(* Further properties of excel.logTrades                                   *)
(***************************************************************************)
\* the trades of slot p all of whose cell writes were answered with success
Succeeded(p) ==
  {t \in 1..Len(tl[p].trades) :
     Cardinality({j \in 1..Len(calls[p]) :
                    /\ calls[p][j].trade = t
                    /\ calls[p][j].kind = "write"
                    /\ calls[p][j].outcome = "ok"}) = Len(COLUMN_ORDER)}

\* C12: the overall status of logTrades is success exactly when every trade
\* succeeded, partial_success exactly when some trade succeeded and some
\* failed (both lists returned), error exactly when the input is non-empty
\* and every trade failed, and warning, with no store call, when the input
\* list is empty.
C12_OverallStatusByTradeOutcomes ==
  \A p \in Procs :
    (tl[p].kind = "log" /\ tl[p].pc = "done" /\ tl[p].response.reason # "bad_json")
    => LET n == Len(tl[p].input)
           good == Succeeded(p)
           res == tl[p].response
       IN /\ res.status = "success" <=> (n > 0 /\ good = 1..n)
          /\ res.status = "partial_success" <=> (good # {} /\ good # 1..n)
          /\ res.status = "partial_success" =>
               /\ Len(res.results) = Cardinality(good)
               /\ Len(res.errors) = n - Cardinality(good)
          /\ res.status = "error" <=> (n > 0 /\ good = {})
          /\ res.status = "warning" <=> n = 0
          /\ n = 0 => calls[p] = <<>>

\* a cell that holds a date: a number in the serial range or a text that parses
DateBearing(v) ==
  \/ /\ v.tag \in {"int", "float"}
     /\ NumLe(Number(MinDateSerial, 0), PyFloat(v))
     /\ NumLe(PyFloat(v), Number(MaxDateSerial, 0))
  \/ /\ v.tag = "text"
     /\ parse_date_string(v.s).ok

\* the anchor search of slot p met a failing store call
AnchorCallFailed(p) ==
  \E j \in 1..Len(calls[p]) : calls[p][j].trade = 0 /\ calls[p][j].outcome # "ok"

\* C13: with referenceDate omitted, if column C holds no date-bearing cell (or
\* the sheet is empty, or the used-extent query or the column read fails)
\* logTrades returns a single error and attempts no trade: no lookup and no
\* cell write is issued for any trade.  Read from the trade's side: a trade is
\* attempted only after an anchor search whose calls all succeeded on a
\* column C that holds a date-bearing cell.
C13_NoAnchorNoTrade ==
  \A p \in Procs :
    (tl[p].kind = "log" /\ tl[p].derived)
    => /\ (tl[p].i >= 1 \/ \E j \in 1..Len(calls[p]) : calls[p][j].trade # 0)
            => /\ ~AnchorCallFailed(p)
               /\ \E r \in 1..Len(sheet) : DateBearing(sheet[r][<<"C">>])
       /\ (tl[p].pc = "done" /\ tl[p].i = 0 /\ tl[p].input # <<>>)
            => /\ tl[p].response.status = "error"
               /\ tl[p].response.results = <<>>
               /\ tl[p].response.errors = <<>>
               /\ \A j \in 1..Len(calls[p]) :
                    calls[p][j].trade = 0 /\ calls[p][j].kind # "write"


\* trade.get(key, ""): an absent field is the empty text
Given(v) == IF v = Absent THEN EmptyText ELSE v

TxtIC == <<"I", "C">>
TxtVPCS == <<"V", "P", "C", "S">>

\* the strategy codes of the strategy names the logged trades carry
StrategyCode(raw) ==
  CASE raw = Text(TxtIronCondor) -> Text(TxtIC)
    [] raw = Text(TxtPutCreditSpread) -> Text(TxtVPCS)
    [] OTHER -> raw

\* the writes of the running trade go to COLUMN_ORDER, one column per field in
\* the field order, an absent field as the empty text
AlignedColumns(p) ==
  LET trade == tl[p].trades[tl[p].i]
      values == im[p].values_list
      w == ImplWrites(p)
      open_date == IF trade["open_date"] # Absent THEN trade["open_date"] ELSE Given(trade["date"])
      open_time == IF trade["open_time"] # Absent THEN trade["open_time"] ELSE Given(trade["time"])
      open_fees == IF trade["open_fees"] # Absent THEN trade["open_fees"] ELSE Given(trade["fees"])
  IN /\ im[p].target_columns_list = <<<<"C">>, <<"E">>, <<"F">>, <<"G">>, <<"I">>, <<"J">>, <<"K">>,
                                      <<"L">>, <<"N">>, <<"O">>, <<"Q">>, <<"R">>, <<"T">>>>
     /\ Len(values) = 13
     /\ values[1] = open_date
     /\ values[2] = open_time
     /\ values[3] \in {Given(trade["close_date"]), open_date}
     /\ values[4] \in {Given(trade["close_time"]), Text(TxtMarketClose)}
     /\ values[5] = StrategyCode(Given(trade["strategy"]))
     /\ values[6] = Given(trade["credit"])
     /\ values[7] \in {Given(trade["debit"]), IntV(0)}
     /\ values[8] = Given(trade["contracts"])
     /\ values[9] = open_fees
     /\ values[10] = Given(trade["close_fees"])
     /\ values[11] = Given(trade["sold_call_strike"])
     /\ values[12] = Given(trade["sold_put_strike"])
     /\ values[13] = Given(trade["width"])
     /\ Len(w) <= 13
     /\ \A j \in 1..Len(w) :
          /\ AddrCol(w[j].addr) = im[p].target_columns_list[j]
          /\ AddrRowText(w[j].addr) = AddrRowText(w[1].addr)
          /\ w[j].outcome = "ok" => sheet[AddrRow(w[j].addr)][AddrCol(w[j].addr)] = values[j]

\* C16: for every trade logTrades issues its writes to exactly the 13 columns
\* C, E, F, G, I, J, K, L, N, O, Q, R, T in that order, carrying open date,
\* open time, close date, close time, strategy code, credit, debit, contracts,
\* open fees, close fees, sold-call strike, sold-put strike and width; an
\* absent field is written as the empty value and shifts no later field.
C16_ThirteenColumnsInOrder ==
  \A p \in Procs :
    (tl[p].kind = "log" /\ tl[p].i >= 1 /\ im[p].pc # "idle")
    => /\ AlignedColumns(p)
       /\ (im[p].pc \in {"return", "raised"} /\ ImplWrites(p) # <<>>) => Len(ImplWrites(p)) = 13

\* C16 without the count of the writes: the writes that are issued are aligned
C16_IssuedWritesAligned ==
  \A p \in Procs :
    (tl[p].kind = "log" /\ tl[p].i >= 1 /\ im[p].pc # "idle")
    => /\ AlignedColumns(p)
       /\ (im[p].pc = "return" /\ ImplWrites(p) # <<>>) => Len(ImplWrites(p)) = 13

(***************************************************************************)
(* Trade preparation of excel.logTrades: the sort and the values array     *)
(***************************************************************************)
MaxSortTrades == 2

TxtOne == <<"1">>
TxtTrueUpper == <<"T", "R", "U", "E">>
TxtNo == <<"n", "o">>

\* single trades over the expired, close_date, close_time and debit fields a
\* trade may carry
ExpiryTrades ==
  LET expired == {Absent, Null, BoolV(TRUE), BoolV(FALSE), Text(TxtYes), Text(TxtOne),
                  Text(TxtTrueUpper), Text(TxtNo)}
      close_date == {Absent, Null, EmptyText, Text(TxtJan5)}
      close_time == {Absent, EmptyText, Text(Txt3pm)}
      debit == {Absent, Null, EmptyText, IntV(0), FloatV(0, 1), FloatV(15, 1)}
  IN { [Trade([open_date |-> Text(TxtJan3), open_time |-> Text(Txt9am)])
          EXCEPT !["expired"] = e, !["close_date"] = cd, !["close_time"] = ct, !["debit"] = d] :
         e \in expired, cd \in close_date, ct \in close_time, d \in debit }

\* the trades that are sorted, over the open_date and open_time fields a
\* trade may carry
SortedTrades ==
  LET open_date == {Absent, Text(TxtJan2), Text(TxtJan3), Text(TxtSoon), IntV(46013)}
      open_time == {Absent, Text(Txt9am), Text(Txt3pm), Text(TxtSoon)}
  IN { [Trade([credit |-> FloatV(6, 1)]) EXCEPT !["open_date"] = od, !["open_time"] = ot] :
         od \in open_date, ot \in open_time }

SortLists == UNION { [1..n -> SortedTrades] : n \in 1..MaxSortTrades }

\* strategy names: the keys of the verbose table, the canonical codes, names in
\* other casing or word order, unknown names, and every key with surrounding words
TxtStrategies ==
  { <<"c", "o", "v", "e", "r", "e", "d", " ", "c", "a", "l", "l">>,
    <<"c", "c">>,
    <<"n", "a", "k", "e", "d", " ", "p", "u", "t">>,
    <<"n", "p">>,
    <<"c", "a", "s", "h", "-", "s", "e", "c", "u", "r", "e", "d", " ", "p", "u", "t">>,
    <<"c", "a", "s", "h", " ", "s", "e", "c", "u", "r", "e", "d", " ", "p", "u", "t">>,
    <<"c", "s", "p">>,
    <<"i", "r", "o", "n", " ", "c", "o", "n", "d", "o", "r">>,
    <<"i", "c">>,
    <<"c", "o", "n", "d", "o", "r">>,
    <<"i", "r", "o", "n", " ", "b", "u", "t", "t", "e", "r", "f", "l", "y">>,
    <<"i", "b">>,
    <<"b", "u", "t", "t", "e", "r", "f", "l", "y">>,
    <<"v", "e", "r", "t", "i", "c", "a", "l", " ", "p", "u", "t", " ", "c", "r", "e", "d", "i", "t", " ", "s", "p", "r", "e", "a", "d">>,
    <<"p", "u", "t", " ", "c", "r", "e", "d", "i", "t", " ", "s", "p", "r", "e", "a", "d">>,
    <<"v", "e", "r", "t", "i", "c", "a", "l", " ", "p", "u", "t", " ", "c", "r", "e", "d", "i", "t">>,
    <<"v", "e", "r", "t", "i", "c", "a", "l", " ", "p", "u", "t", " ", "s", "p", "r", "e", "a", "d">>,
    <<"p", "u", "t", " ", "v", "e", "r", "t", "i", "c", "a", "l", " ", "c", "r", "e", "d", "i", "t">>,
    <<"p", "u", "t", " ", "v", "e", "r", "t", "i", "c", "a", "l">>,
    <<"v", "e", "r", "t", "i", "c", "a", "l", " ", "p", "u", "t">>,
    <<"p", "c", "s">>,
    <<"v", "p", "c", "s">>,
    <<"v", "e", "r", "t", "i", "c", "a", "l", " ", "p", "u", "t", " ", "d", "e", "b", "i", "t", " ", "s", "p", "r", "e", "a", "d">>,
    <<"p", "u", "t", " ", "d", "e", "b", "i", "t", " ", "s", "p", "r", "e", "a", "d">>,
    <<"v", "e", "r", "t", "i", "c", "a", "l", " ", "p", "u", "t", " ", "d", "e", "b", "i", "t">>,
    <<"p", "d", "s">>,
    <<"v", "p", "d", "s">>,
    <<"v", "e", "r", "t", "i", "c", "a", "l", " ", "c", "a", "l", "l", " ", "c", "r", "e", "d", "i", "t", " ", "s", "p", "r", "e", "a", "d">>,
    <<"c", "a", "l", "l", " ", "c", "r", "e", "d", "i", "t", " ", "s", "p", "r", "e", "a", "d">>,
    <<"v", "e", "r", "t", "i", "c", "a", "l", " ", "c", "a", "l", "l", " ", "c", "r", "e", "d", "i", "t">>,
    <<"v", "e", "r", "t", "i", "c", "a", "l", " ", "c", "a", "l", "l", " ", "s", "p", "r", "e", "a", "d">>,
    <<"c", "a", "l", "l", " ", "v", "e", "r", "t", "i", "c", "a", "l", " ", "c", "r", "e", "d", "i", "t">>,
    <<"c", "a", "l", "l", " ", "v", "e", "r", "t", "i", "c", "a", "l">>,
    <<"v", "e", "r", "t", "i", "c", "a", "l", " ", "c", "a", "l", "l">>,
    <<"c", "c", "s">>,
    <<"v", "c", "c", "s">>,
    <<"s", "h", "o", "r", "t", " ", "s", "t", "r", "a", "d", "d", "l", "e">>,
    <<"s", "t", "r", "a", "d", "d", "l", "e">>,
    <<"s", "h", "o", "r", "t", " ", "s", "t", "r", "a", "n", "g", "l", "e">>,
    <<"s", "t", "r", "a", "n", "g", "l", "e">>,
    <<"j", "a", "d", "e", " ", "l", "i", "z", "a", "r", "d">>,
    <<"j", "a", "d", "e", "l", "i", "z", "a", "r", "d">>,
    <<"j", "a", "d", "e">>,
    <<"r", "e", "v", "e", "r", "s", "e", " ", "j", "a", "d", "e", " ", "l", "i", "z", "a", "r", "d">>,
    <<"r", "e", "v", "e", "r", "s", "e", " ", "j", "a", "d", "e">>,
    <<"r", "j", "a", "d", "e">>,
    <<"z", "e", "r", "o", " ", "e", "x", "t", "r", "i", "n", "s", "i", "c", " ", "b", "a", "c", "k", " ", "r", "a", "t", "i", "o">>,
    <<"z", "e", "b", "r", "a">>,
    <<"l", "t", "1", "-", "1", "-", "1">>,
    <<"1", "-", "1", "-", "1">>,
    <<"1", "1", "1">>,
    <<"l", "t", "1", "-", "1", "-", "2">>,
    <<"1", "-", "1", "-", "2">>,
    <<"1", "1", "2">>,
    <<"r", "o", "l", "l", "i", "n", "g", " ", "d", "i", "a", "g", "o", "n", "a", "l", " ", "p", "u", "t", "s">>,
    <<"r", "o", "l", "l", "i", "n", "g", " ", "d", "i", "a", "g", "o", "n", "a", "l">>,
    <<"d", "i", "a", "g", "o", "n", "a", "l", " ", "p", "u", "t", "s">>,
    <<"r", "d", "p">>,
    <<"s", "h", "o", "r", "t", " ", "l", "e", "a", "p", "s">>,
    <<"l", "e", "a", "p", " ", "p", "u", "t">>,
    <<"l", "e", "a", "p", "s", " ", "p", "u", "t">>,
    <<"l", "e", "a", "p", "p", "u", "t">>,
    <<"l", "e", "a", "p", "s", " ", "c", "a", "l", "l", " ", "s", "p", "r", "e", "a", "d">>,
    <<"l", "e", "a", "p", " ", "c", "a", "l", "l", " ", "s", "p", "r", "e", "a", "d">>,
    <<"l", "e", "a", "p", "c", "s">>,
    <<"p", "u", "t", " ", "b", "u", "t", "t", "e", "r", "f", "l", "y">>,
    <<"p", "b", "u", "t", "t", "e", "r", "f", "l", "y">>,
    <<"c", "a", "l", "l", " ", "b", "u", "t", "t", "e", "r", "f", "l", "y">>,
    <<"c", "b", "u", "t", "t", "e", "r", "f", "l", "y">>,
    <<"v", "i", "x", " ", "u", "p", "t", "r", "e", "n", "d">>,
    <<"v", "i", "x">>,
    <<"C", "B", "u", "t", "t", "e", "r", "f", "l", "y">>,
    <<"C", "C">>,
    <<"C", "S", "P">>,
    <<"I", "B">>,
    <<"I", "C">>,
    <<"J", "a", "d", "e", "L", "i", "z", "a", "r", "d">>,
    <<"L", "E", "A", "P", "P", "u", "t">>,
    <<"L", "e", "a", "p", "C", "S">>,
    <<"N", "P">>,
    <<"P", "B", "u", "t", "t", "e", "r", "f", "l", "y">>,
    <<"R", "D", "P">>,
    <<"R", "J", "a", "d", "e">>,
    <<"S", "t", "r", "a", "d", "d", "l", "e">>,
    <<"S", "t", "r", "a", "n", "g", "l", "e">>,
    <<"V", "C", "C", "S">>,
    <<"V", "I", "X">>,
    <<"V", "P", "C", "S">>,
    <<"V", "P", "D", "S">>,
    <<"Z", "e", "b", "r", "a">>,
    <<"V", "C", "D", "S">>,
    <<"v", "c", "d", "s">>,
    <<"I", "r", "o", "n", " ", "C", "o", "n", "d", "o", "r">>,
    <<" ", "i", "r", "o", "n", " ", "c", "o", "n", "d", "o", "r", " ">>,
    <<"P", "U", "T", " ", "C", "R", "E", "D", "I", "T", " ", "S", "P", "R", "E", "A", "D">>,
    <<"t", "o", "t", "a", "l", "l", "y", " ", "u", "n", "k", "n", "o", "w", "n", " ", "s", "t", "r", "a", "t", "e", "g", "y">>,
    <<"c", "a", "l", "l", " ", "d", "e", "b", "i", "t", " ", "s", "p", "r", "e", "a", "d">>,
    <<"b", "r", "o", "k", "e", "n", " ", "w", "i", "n", "g", " ", "c", "o", "n", "d", "o", "r">>,
    <<"s", "p", "r", "e", "a", "d", " ", "p", "u", "t", " ", "c", "r", "e", "d", "i", "t">>,
    <<"S", "t", "r", "a", "d", "d", "l", "e", " ", "P", "l", "a", "y">>,
    <<"x">>,
    <<"m", "y", " ", "c", "o", "v", "e", "r", "e", "d", " ", "c", "a", "l", "l", " ", "t", "r", "a", "d", "e">>,
    <<"m", "y", " ", "c", "c", " ", "t", "r", "a", "d", "e">>,
    <<"m", "y", " ", "n", "a", "k", "e", "d", " ", "p", "u", "t", " ", "t", "r", "a", "d", "e">>,
    <<"m", "y", " ", "n", "p", " ", "t", "r", "a", "d", "e">>,
    <<"m", "y", " ", "c", "a", "s", "h", "-", "s", "e", "c", "u", "r", "e", "d", " ", "p", "u", "t", " ", "t", "r", "a", "d", "e">>,
    <<"m", "y", " ", "c", "a", "s", "h", " ", "s", "e", "c", "u", "r", "e", "d", " ", "p", "u", "t", " ", "t", "r", "a", "d", "e">>,
    <<"m", "y", " ", "c", "s", "p", " ", "t", "r", "a", "d", "e">>,
    <<"m", "y", " ", "i", "r", "o", "n", " ", "c", "o", "n", "d", "o", "r", " ", "t", "r", "a", "d", "e">>,
    <<"m", "y", " ", "i", "c", " ", "t", "r", "a", "d", "e">>,
    <<"m", "y", " ", "c", "o", "n", "d", "o", "r", " ", "t", "r", "a", "d", "e">>,
    <<"m", "y", " ", "i", "r", "o", "n", " ", "b", "u", "t", "t", "e", "r", "f", "l", "y", " ", "t", "r", "a", "d", "e">>,
    <<"m", "y", " ", "i", "b", " ", "t", "r", "a", "d", "e">>,
    <<"m", "y", " ", "b", "u", "t", "t", "e", "r", "f", "l", "y", " ", "t", "r", "a", "d", "e">>,
    <<"m", "y", " ", "v", "e", "r", "t", "i", "c", "a", "l", " ", "p", "u", "t", " ", "c", "r", "e", "d", "i", "t", " ", "s", "p", "r", "e", "a", "d", " ", "t", "r", "a", "d", "e">>,
    <<"m", "y", " ", "p", "u", "t", " ", "c", "r", "e", "d", "i", "t", " ", "s", "p", "r", "e", "a", "d", " ", "t", "r", "a", "d", "e">>,
    <<"m", "y", " ", "v", "e", "r", "t", "i", "c", "a", "l", " ", "p", "u", "t", " ", "c", "r", "e", "d", "i", "t", " ", "t", "r", "a", "d", "e">>,
    <<"m", "y", " ", "v", "e", "r", "t", "i", "c", "a", "l", " ", "p", "u", "t", " ", "s", "p", "r", "e", "a", "d", " ", "t", "r", "a", "d", "e">>,
    <<"m", "y", " ", "p", "u", "t", " ", "v", "e", "r", "t", "i", "c", "a", "l", " ", "c", "r", "e", "d", "i", "t", " ", "t", "r", "a", "d", "e">>,
    <<"m", "y", " ", "p", "u", "t", " ", "v", "e", "r", "t", "i", "c", "a", "l", " ", "t", "r", "a", "d", "e">>,
    <<"m", "y", " ", "v", "e", "r", "t", "i", "c", "a", "l", " ", "p", "u", "t", " ", "t", "r", "a", "d", "e">>,
    <<"m", "y", " ", "p", "c", "s", " ", "t", "r", "a", "d", "e">>,
    <<"m", "y", " ", "v", "p", "c", "s", " ", "t", "r", "a", "d", "e">>,
    <<"m", "y", " ", "v", "e", "r", "t", "i", "c", "a", "l", " ", "p", "u", "t", " ", "d", "e", "b", "i", "t", " ", "s", "p", "r", "e", "a", "d", " ", "t", "r", "a", "d", "e">>,
    <<"m", "y", " ", "p", "u", "t", " ", "d", "e", "b", "i", "t", " ", "s", "p", "r", "e", "a", "d", " ", "t", "r", "a", "d", "e">>,
    <<"m", "y", " ", "v", "e", "r", "t", "i", "c", "a", "l", " ", "p", "u", "t", " ", "d", "e", "b", "i", "t", " ", "t", "r", "a", "d", "e">>,
    <<"m", "y", " ", "p", "d", "s", " ", "t", "r", "a", "d", "e">>,
    <<"m", "y", " ", "v", "p", "d", "s", " ", "t", "r", "a", "d", "e">>,
    <<"m", "y", " ", "v", "e", "r", "t", "i", "c", "a", "l", " ", "c", "a", "l", "l", " ", "c", "r", "e", "d", "i", "t", " ", "s", "p", "r", "e", "a", "d", " ", "t", "r", "a", "d", "e">>,
    <<"m", "y", " ", "c", "a", "l", "l", " ", "c", "r", "e", "d", "i", "t", " ", "s", "p", "r", "e", "a", "d", " ", "t", "r", "a", "d", "e">>,
    <<"m", "y", " ", "v", "e", "r", "t", "i", "c", "a", "l", " ", "c", "a", "l", "l", " ", "c", "r", "e", "d", "i", "t", " ", "t", "r", "a", "d", "e">>,
    <<"m", "y", " ", "v", "e", "r", "t", "i", "c", "a", "l", " ", "c", "a", "l", "l", " ", "s", "p", "r", "e", "a", "d", " ", "t", "r", "a", "d", "e">>,
    <<"m", "y", " ", "c", "a", "l", "l", " ", "v", "e", "r", "t", "i", "c", "a", "l", " ", "c", "r", "e", "d", "i", "t", " ", "t", "r", "a", "d", "e">>,
    <<"m", "y", " ", "c", "a", "l", "l", " ", "v", "e", "r", "t", "i", "c", "a", "l", " ", "t", "r", "a", "d", "e">>,
    <<"m", "y", " ", "v", "e", "r", "t", "i", "c", "a", "l", " ", "c", "a", "l", "l", " ", "t", "r", "a", "d", "e">>,
    <<"m", "y", " ", "c", "c", "s", " ", "t", "r", "a", "d", "e">>,
    <<"m", "y", " ", "v", "c", "c", "s", " ", "t", "r", "a", "d", "e">>,
    <<"m", "y", " ", "s", "h", "o", "r", "t", " ", "s", "t", "r", "a", "d", "d", "l", "e", " ", "t", "r", "a", "d", "e">>,
    <<"m", "y", " ", "s", "t", "r", "a", "d", "d", "l", "e", " ", "t", "r", "a", "d", "e">>,
    <<"m", "y", " ", "s", "h", "o", "r", "t", " ", "s", "t", "r", "a", "n", "g", "l", "e", " ", "t", "r", "a", "d", "e">>,
    <<"m", "y", " ", "s", "t", "r", "a", "n", "g", "l", "e", " ", "t", "r", "a", "d", "e">>,
    <<"m", "y", " ", "j", "a", "d", "e", " ", "l", "i", "z", "a", "r", "d", " ", "t", "r", "a", "d", "e">>,
    <<"m", "y", " ", "j", "a", "d", "e", "l", "i", "z", "a", "r", "d", " ", "t", "r", "a", "d", "e">>,
    <<"m", "y", " ", "j", "a", "d", "e", " ", "t", "r", "a", "d", "e">>,
    <<"m", "y", " ", "r", "e", "v", "e", "r", "s", "e", " ", "j", "a", "d", "e", " ", "l", "i", "z", "a", "r", "d", " ", "t", "r", "a", "d", "e">>,
    <<"m", "y", " ", "r", "e", "v", "e", "r", "s", "e", " ", "j", "a", "d", "e", " ", "t", "r", "a", "d", "e">>,
    <<"m", "y", " ", "r", "j", "a", "d", "e", " ", "t", "r", "a", "d", "e">>,
    <<"m", "y", " ", "z", "e", "r", "o", " ", "e", "x", "t", "r", "i", "n", "s", "i", "c", " ", "b", "a", "c", "k", " ", "r", "a", "t", "i", "o", " ", "t", "r", "a", "d", "e">>,
    <<"m", "y", " ", "z", "e", "b", "r", "a", " ", "t", "r", "a", "d", "e">>,
    <<"m", "y", " ", "l", "t", "1", "-", "1", "-", "1", " ", "t", "r", "a", "d", "e">>,
    <<"m", "y", " ", "1", "-", "1", "-", "1", " ", "t", "r", "a", "d", "e">>,
    <<"m", "y", " ", "1", "1", "1", " ", "t", "r", "a", "d", "e">>,
    <<"m", "y", " ", "l", "t", "1", "-", "1", "-", "2", " ", "t", "r", "a", "d", "e">>,
    <<"m", "y", " ", "1", "-", "1", "-", "2", " ", "t", "r", "a", "d", "e">>,
    <<"m", "y", " ", "1", "1", "2", " ", "t", "r", "a", "d", "e">>,
    <<"m", "y", " ", "r", "o", "l", "l", "i", "n", "g", " ", "d", "i", "a", "g", "o", "n", "a", "l", " ", "p", "u", "t", "s", " ", "t", "r", "a", "d", "e">>,
    <<"m", "y", " ", "r", "o", "l", "l", "i", "n", "g", " ", "d", "i", "a", "g", "o", "n", "a", "l", " ", "t", "r", "a", "d", "e">>,
    <<"m", "y", " ", "d", "i", "a", "g", "o", "n", "a", "l", " ", "p", "u", "t", "s", " ", "t", "r", "a", "d", "e">>,
    <<"m", "y", " ", "r", "d", "p", " ", "t", "r", "a", "d", "e">>,
    <<"m", "y", " ", "s", "h", "o", "r", "t", " ", "l", "e", "a", "p", "s", " ", "t", "r", "a", "d", "e">>,
    <<"m", "y", " ", "l", "e", "a", "p", " ", "p", "u", "t", " ", "t", "r", "a", "d", "e">>,
    <<"m", "y", " ", "l", "e", "a", "p", "s", " ", "p", "u", "t", " ", "t", "r", "a", "d", "e">>,
    <<"m", "y", " ", "l", "e", "a", "p", "p", "u", "t", " ", "t", "r", "a", "d", "e">>,
    <<"m", "y", " ", "l", "e", "a", "p", "s", " ", "c", "a", "l", "l", " ", "s", "p", "r", "e", "a", "d", " ", "t", "r", "a", "d", "e">>,
    <<"m", "y", " ", "l", "e", "a", "p", " ", "c", "a", "l", "l", " ", "s", "p", "r", "e", "a", "d", " ", "t", "r", "a", "d", "e">>,
    <<"m", "y", " ", "l", "e", "a", "p", "c", "s", " ", "t", "r", "a", "d", "e">>,
    <<"m", "y", " ", "p", "u", "t", " ", "b", "u", "t", "t", "e", "r", "f", "l", "y", " ", "t", "r", "a", "d", "e">>,
    <<"m", "y", " ", "p", "b", "u", "t", "t", "e", "r", "f", "l", "y", " ", "t", "r", "a", "d", "e">>,
    <<"m", "y", " ", "c", "a", "l", "l", " ", "b", "u", "t", "t", "e", "r", "f", "l", "y", " ", "t", "r", "a", "d", "e">>,
    <<"m", "y", " ", "c", "b", "u", "t", "t", "e", "r", "f", "l", "y", " ", "t", "r", "a", "d", "e">>,
    <<"m", "y", " ", "v", "i", "x", " ", "u", "p", "t", "r", "e", "n", "d", " ", "t", "r", "a", "d", "e">>,
    <<"m", "y", " ", "v", "i", "x", " ", "t", "r", "a", "d", "e">> }

PrepareTradeInputs ==
  {JsonList(<<t>>) : t \in ExpiryTrades} \cup {JsonList(l) : l \in SortLists}
  \cup {JsonList(<<Trade([open_date |-> Text(TxtJan3), strategy |-> Text(s)])>>) : s \in TxtStrategies}

InitPrepare ==
  /\ sheet = SheetOfColumnC(<<Text(TxtTrade1), IntV(46013)>>)
  /\ tl = [p \in Procs |-> ToolIdle]
  /\ im = [p \in Procs |-> ImplIdle]
  /\ calls = [p \in Procs |-> <<>>]
  /\ hist = {}
  /\ budget = 0
  /\ invLeft = 1

\* the call up to the values array of its first trade
NextPrepare ==
  \/ LogInvoke("p1", PrepareTradeInputs, {TxtJan5})
  \/ LogStartTrade("p1")

SpecPrepare == InitPrepare /\ [][NextPrepare]_vars

\* the trade whose values array the tool holds
PreparedTrade(p) == tl[p].trades[tl[p].i]

DateParses(trade) == trade["open_date"] \in {Text(TxtJan2), Text(TxtJan3)}
TimeParses(trade) == trade["open_time"] \in {Text(Txt9am), Text(Txt3pm)}

\* C17: a trade whose open_date is missing or does not parse comes after every
\* trade with a parseable open_date, a trade whose open_time does not parse
\* comes after the trades of its date with a parseable time, and no such trade
\* makes the sort or the batch fail.
C17_UnparseableSortsLast ==
  \A p \in Procs :
    (tl[p].kind = "log" /\ tl[p].pc # "idle" /\ tl[p].input # <<>>
       /\ \A j \in 1..Len(tl[p].input) : tl[p].input[j] \in SortedTrades)
    => LET trades == tl[p].trades
       IN /\ ~(tl[p].pc = "done" /\ tl[p].response.status = "error")
          /\ Len(trades) = Len(tl[p].input)
          /\ \A a \in 1..Len(trades) : \A b \in (a + 1)..Len(trades) :
               /\ DateParses(trades[b]) => DateParses(trades[a])
               /\ (DateParses(trades[a]) /\ trades[a]["open_date"] = trades[b]["open_date"]
                     /\ TimeParses(trades[b])) => TimeParses(trades[a])

\* C17 restricted to open dates and times that are text or missing
C17_TextOnly ==
  \A p \in Procs :
    (tl[p].kind = "log" /\ tl[p].pc # "idle" /\ tl[p].input # <<>>
       /\ \A j \in 1..Len(tl[p].input) :
            tl[p].input[j] \in SortedTrades /\ ~KeyRaises(tl[p].input[j]))
    => LET trades == tl[p].trades
       IN /\ ~(tl[p].pc = "done" /\ tl[p].response.status = "error")
          /\ Len(trades) = Len(tl[p].input)
          /\ \A a \in 1..Len(trades) : \A b \in (a + 1)..Len(trades) :
               /\ DateParses(trades[b]) => DateParses(trades[a])
               /\ (DateParses(trades[a]) /\ trades[a]["open_date"] = trades[b]["open_date"]
                     /\ TimeParses(trades[b])) => TimeParses(trades[a])

(***************************************************************************)
(* Value equivalence (compare_values_for_search), seen through the lookup  *)
(* of excel.updateRowByLookup on a column of a header and one cell         *)
(***************************************************************************)
TxtDmyJune5 == <<"0", "5", "-", "0", "6", "-", "2", "0", "2", "5">>
TxtMdyDate == <<"1", "2", "-", "2", "2", "-", "2", "0", "2", "5">>
TxtYmdSlash == <<"2", "0", "2", "5", "/", "1", "2", "/", "2", "2">>
TxtNewYear1900 == <<"0", "1", "/", "0", "1", "/", "1", "9", "0", "0">>
TxtFeb28Of1900 == <<"0", "2", "/", "2", "8", "/", "1", "9", "0", "0">>
TxtMar1Of1900 == <<"0", "3", "/", "0", "1", "/", "1", "9", "0", "0">>
TxtLeapDay2000 == <<"0", "2", "/", "2", "9", "/", "2", "0", "0", "0">>
TxtLeapDay2024 == <<"0", "2", "/", "2", "9", "/", "2", "0", "2", "4">>
TxtMar1Of2100 == <<"0", "3", "/", "0", "1", "/", "2", "1", "0", "0">>
TxtFeb30 == <<"0", "2", "/", "3", "0", "/", "2", "0", "2", "5">>
TxtIsoDate == <<"2", "0", "2", "5", "-", "1", "2", "-", "2", "2">>
TxtDmyDate == <<"2", "2", "-", "1", "2", "-", "2", "0", "2", "5">>
TxtIsoShort == <<"2", "0", "2", "5", "-", "1", "-", "5">>
TxtSerial == <<"4", "6", "0", "1", "3">>
Txt99 == <<"9", "9">>
Txt99Point0 == <<"9", "9", ".", "0">>
TxtEpochDay == <<"1", "2", "/", "3", "0", "/", "1", "8", "9", "9">>
TxtDayOne == <<"1", "2", "/", "3", "1", "/", "1", "8", "9", "9">>
TxtLastDay == <<"1", "2", "/", "3", "1", "/", "9", "9", "9", "9">>
TxtNoSuchDay == <<"1", "3", "/", "4", "5", "/", "2", "0", "2", "5">>
TxtHeader == <<"D", "a", "t", "e">>

\* the cells and the reference values that are compared
CompareCells ==
  { Null,
    Text(TxtTrade1),
    IntV(100),
    IntV(99),
    FloatV(990, 1),
    Text(Txt99Point0),
    IntV(46013),
    IntV(46014),
    FloatV(460135, 1),
    Text(TxtSerial),
    Text(TxtDate1),
    Text(TxtIsoDate),
    Text(TxtDmyDate),
    IntV(45662),
    IntV(0),
    FloatV(5, 1),
    IntV(1),
    BoolV(TRUE),
    IntV(2958465),
    IntV(2958466),
    EmptyText,
    IntV(45813),
    IntV(45783),
    IntV(2),
    IntV(60),
    IntV(61),
    IntV(36585),
    FloatV(3658575, 2),
    IntV(45351),
    IntV(73110) }

CompareReferences ==
  { TxtDate1,
    TxtIsoDate,
    TxtDmyDate,
    TxtIsoShort,
    TxtTrade1,
    Txt99,
    TxtEpochDay,
    TxtDayOne,
    TxtLastDay,
    TxtSerial,
    TxtNoSuchDay,
    TxtDmyJune5,
    TxtMdyDate,
    TxtYmdSlash,
    TxtNewYear1900,
    TxtFeb28Of1900,
    TxtMar1Of1900,
    TxtLeapDay2000,
    TxtLeapDay2024,
    TxtMar1Of2100,
    TxtFeb30 }

CompareColumns == {<<Text(TxtHeader), cell>> : cell \in CompareCells}

InitCompare ==
  /\ sheet \in {SheetOfColumnC(col) : col \in CompareColumns}
  /\ tl = [p \in Procs |-> ToolIdle]
  /\ im = [p \in Procs |-> ImplIdle]
  /\ calls = [p \in Procs |-> <<>>]
  /\ hist = {}
  /\ budget = 0
  /\ invLeft = 1

\* updateRowByLookup compares the cell with a reference value; logTrades
\* without reference date derives the reference date from the cell
NextCompare ==
  \/ UpdateInvokeWith("p1", {<<<<"E">>>>}, {<<IntV(7)>>}, CompareReferences, {0})
  \/ UpdateReturn("p1")
  \/ LogInvoke("p1", {JsonList(<<TradeJan2At3>>)}, {<<>>})
  \/ LogStep("p1")
  \/ ImplStep("p1")

SpecCompare == InitCompare /\ [][NextCompare]_vars

\* the lookup of slot p has compared the cell of row 2 with the reference value
Scanned(p) ==
  /\ tl[p].kind = "update"
  /\ im[p].pc \in {"write", "return"}
  /\ Len(im[p].column_values) = 2

ScannedCell(p) == im[p].column_values[2]

\* the comparison of the cell with the reference value was true
Matched(p) == im[p].found_row = 2

\* the string form of a cell
StringForm(cell) ==
  CASE cell = Text(TxtTrade1) -> TxtTrade1
    [] cell = IntV(100) -> <<"1", "0", "0">>
    [] cell = IntV(99) -> Txt99
    [] cell = FloatV(990, 1) -> Txt99Point0
    [] cell = Text(Txt99Point0) -> Txt99Point0
    [] cell = IntV(46013) -> TxtSerial
    [] cell = IntV(46014) -> <<"4", "6", "0", "1", "4">>
    [] cell = FloatV(460135, 1) -> <<"4", "6", "0", "1", "3", ".", "5">>
    [] cell = Text(TxtSerial) -> TxtSerial
    [] cell = Text(TxtDate1) -> TxtDate1
    [] cell = Text(TxtIsoDate) -> TxtIsoDate
    [] cell = Text(TxtDmyDate) -> TxtDmyDate
    [] cell = IntV(45662) -> <<"4", "5", "6", "6", "2">>
    [] cell = IntV(0) -> <<"0">>
    [] cell = FloatV(5, 1) -> <<"0", ".", "5">>
    [] cell = IntV(1) -> <<"1">>
    [] cell = BoolV(TRUE) -> <<"T", "r", "u", "e">>
    [] cell = IntV(2958465) -> <<"2", "9", "5", "8", "4", "6", "5">>
    [] cell = IntV(2958466) -> <<"2", "9", "5", "8", "4", "6", "6">>
    [] cell = IntV(45813) -> <<"4", "5", "8", "1", "3">>
    [] cell = IntV(45783) -> <<"4", "5", "7", "8", "3">>
    [] cell = IntV(2) -> <<"2">>
    [] cell = IntV(60) -> <<"6", "0">>
    [] cell = IntV(61) -> <<"6", "1">>
    [] cell = IntV(36585) -> <<"3", "6", "5", "8", "5">>
    [] cell = FloatV(3658575, 2) -> <<"3", "6", "5", "8", "5", ".", "7", "5">>
    [] cell = IntV(45351) -> <<"4", "5", "3", "5", "1">>
    [] cell = IntV(73110) -> <<"7", "3", "1", "1", "0">>
    [] OTHER -> <<>>

\* the number a cell coerces to, if any
CellNumber(cell) ==
  CASE cell = IntV(100) -> Number(100, 0)
    [] cell = IntV(99) -> Number(99, 0)
    [] cell = FloatV(990, 1) -> Number(99, 0)
    [] cell = Text(Txt99Point0) -> Number(99, 0)
    [] cell = IntV(46013) -> Number(46013, 0)
    [] cell = IntV(46014) -> Number(46014, 0)
    [] cell = FloatV(460135, 1) -> Number(460135, 1)
    [] cell = Text(TxtSerial) -> Number(46013, 0)
    [] cell = IntV(45662) -> Number(45662, 0)
    [] cell = IntV(0) -> Number(0, 0)
    [] cell = FloatV(5, 1) -> Number(5, 1)
    [] cell = IntV(1) -> Number(1, 0)
    [] cell = BoolV(TRUE) -> Number(1, 0)
    [] cell = IntV(2958465) -> Number(2958465, 0)
    [] cell = IntV(2958466) -> Number(2958466, 0)
    [] cell = IntV(45813) -> Number(45813, 0)
    [] cell = IntV(45783) -> Number(45783, 0)
    [] cell = IntV(2) -> Number(2, 0)
    [] cell = IntV(60) -> Number(60, 0)
    [] cell = IntV(61) -> Number(61, 0)
    [] cell = IntV(36585) -> Number(36585, 0)
    [] cell = FloatV(3658575, 2) -> Number(3658575, 2)
    [] cell = IntV(45351) -> Number(45351, 0)
    [] cell = IntV(73110) -> Number(73110, 0)
    [] OTHER -> NoNumber

\* the number a reference coerces to, if any
ReferenceNumber(ref) ==
  CASE ref = Txt99 -> Number(99, 0)
    [] ref = TxtSerial -> Number(46013, 0)
    [] OTHER -> NoNumber

\* the serial of a reference that matches a date shape and parses, if any
ReferenceSerial(ref) ==
  CASE ref = TxtDate1 -> Number(46013, 0)
    [] ref = TxtIsoDate -> Number(46013, 0)
    [] ref = TxtDmyDate -> Number(46013, 0)
    [] ref = TxtEpochDay -> Number(0, 0)
    [] ref = TxtDayOne -> Number(1, 0)
    [] ref = TxtLastDay -> Number(2958465, 0)
    [] ref = TxtDmyJune5 -> Number(45813, 0)
    [] ref = TxtMdyDate -> Number(46013, 0)
    [] ref = TxtYmdSlash -> Number(46013, 0)
    [] ref = TxtNewYear1900 -> Number(2, 0)
    [] ref = TxtFeb28Of1900 -> Number(60, 0)
    [] ref = TxtMar1Of1900 -> Number(61, 0)
    [] ref = TxtLeapDay2000 -> Number(36585, 0)
    [] ref = TxtLeapDay2024 -> Number(45351, 0)
    [] ref = TxtMar1Of2100 -> Number(73110, 0)
    [] OTHER -> NoNumber

\* the calendar date <<y, m, d>> a cell holds, as a serial or as date text, if any
CellDate(cell) ==
  CASE cell = IntV(100) -> <<1900, 4, 9>>
    [] cell = IntV(99) -> <<1900, 4, 8>>
    [] cell = FloatV(990, 1) -> <<1900, 4, 8>>
    [] cell = IntV(46013) -> <<2025, 12, 22>>
    [] cell = IntV(46014) -> <<2025, 12, 23>>
    [] cell = FloatV(460135, 1) -> <<2025, 12, 22>>
    [] cell = Text(TxtDate1) -> <<2025, 12, 22>>
    [] cell = Text(TxtIsoDate) -> <<2025, 12, 22>>
    [] cell = Text(TxtDmyDate) -> <<2025, 12, 22>>
    [] cell = IntV(45662) -> <<2025, 1, 5>>
    [] cell = IntV(1) -> <<1899, 12, 31>>
    [] cell = IntV(2958465) -> <<9999, 12, 31>>
    [] cell = IntV(45813) -> <<2025, 6, 5>>
    [] cell = IntV(45783) -> <<2025, 5, 6>>
    [] cell = IntV(2) -> <<1900, 1, 1>>
    [] cell = IntV(60) -> <<1900, 2, 28>>
    [] cell = IntV(61) -> <<1900, 3, 1>>
    [] cell = IntV(36585) -> <<2000, 2, 29>>
    [] cell = FloatV(3658575, 2) -> <<2000, 2, 29>>
    [] cell = IntV(45351) -> <<2024, 2, 29>>
    [] cell = IntV(73110) -> <<2100, 3, 1>>
    [] OTHER -> <<>>

\* the calendar date <<y, m, d>> of a reference accepted as a date, if any
ReferenceDate(ref) ==
  CASE ref = TxtDate1 -> <<2025, 12, 22>>
    [] ref = TxtIsoDate -> <<2025, 12, 22>>
    [] ref = TxtDmyDate -> <<2025, 12, 22>>
    [] ref = TxtIsoShort -> <<2025, 1, 5>>
    [] ref = TxtDayOne -> <<1899, 12, 31>>
    [] ref = TxtLastDay -> <<9999, 12, 31>>
    [] ref = TxtDmyJune5 -> <<2025, 6, 5>>
    [] ref = TxtMdyDate -> <<2025, 12, 22>>
    [] ref = TxtYmdSlash -> <<2025, 12, 22>>
    [] ref = TxtNewYear1900 -> <<1900, 1, 1>>
    [] ref = TxtFeb28Of1900 -> <<1900, 2, 28>>
    [] ref = TxtMar1Of1900 -> <<1900, 3, 1>>
    [] ref = TxtLeapDay2000 -> <<2000, 2, 29>>
    [] ref = TxtLeapDay2024 -> <<2024, 2, 29>>
    [] ref = TxtMar1Of2100 -> <<2100, 3, 1>>
    [] OTHER -> <<>>

\* the calendar date <<y, m, d>> a reference parses to, if any
ParsedDate(ref) ==
  CASE ref = TxtDate1 -> <<2025, 12, 22>>
    [] ref = TxtIsoDate -> <<2025, 12, 22>>
    [] ref = TxtDmyDate -> <<2025, 12, 22>>
    [] ref = TxtIsoShort -> <<2025, 1, 5>>
    [] ref = TxtEpochDay -> <<1899, 12, 30>>
    [] ref = TxtDayOne -> <<1899, 12, 31>>
    [] ref = TxtLastDay -> <<9999, 12, 31>>
    [] ref = TxtDmyJune5 -> <<2025, 6, 5>>
    [] ref = TxtMdyDate -> <<2025, 12, 22>>
    [] ref = TxtYmdSlash -> <<2025, 12, 22>>
    [] ref = TxtNewYear1900 -> <<1900, 1, 1>>
    [] ref = TxtFeb28Of1900 -> <<1900, 2, 28>>
    [] ref = TxtMar1Of1900 -> <<1900, 3, 1>>
    [] ref = TxtLeapDay2000 -> <<2000, 2, 29>>
    [] ref = TxtLeapDay2024 -> <<2024, 2, 29>>
    [] ref = TxtMar1Of2100 -> <<2100, 3, 1>>
    [] OTHER -> <<>>

\* C18 as stated: valuesEquivalent(46014, "12/22/2025") is true, 46014 being
\* the serial that dateToSerial gives for 2025-12-22 under the program's epoch.
C18_Serial46014 ==
  \A p \in Procs :
    (Scanned(p) /\ ScannedCell(p) = IntV(46014) /\ im[p].reference_value = TxtDate1)
    => /\ Matched(p)
       /\ date_to_excel_serial(parse_date_string(im[p].reference_value)) = 46014

\* C18, amended: valuesEquivalent(46013, "12/22/2025") is true, 46013 being the
\* serial that dateToSerial gives for 2025-12-22 under the program's epoch
\* (30 December 1899); the cell 46014 is the next day and does not match.
C18_Serial46013 ==
  \A p \in Procs :
    /\ (Scanned(p) /\ ScannedCell(p) = IntV(46013) /\ im[p].reference_value = TxtDate1)
       => /\ Matched(p)
          /\ date_to_excel_serial(parse_date_string(im[p].reference_value)) = 46013
    /\ (Scanned(p) /\ ScannedCell(p) = IntV(46014) /\ im[p].reference_value = TxtDate1)
       => ~Matched(p)

\* the lookup of "12/22/2025" has found the cell 46013
C18_Witness ==
  /\ Scanned("p1")
  /\ ScannedCell("p1") = IntV(46013)
  /\ im["p1"].reference_value = TxtDate1
  /\ im["p1"].found_row = 2
  /\ im["p1"].pc = "return"

\* C19: for every reference value accepted as a date and every cell that
\* holds the same calendar date, as its date-serial number or as date text in
\* any accepted date format, valuesEquivalent(cell, reference) is true.
C19_SameDateMatches ==
  \A p \in Procs :
    (Scanned(p) /\ ReferenceDate(im[p].reference_value) # <<>>
       /\ CellDate(ScannedCell(p)) = ReferenceDate(im[p].reference_value))
    => Matched(p)

\* C19, amended: for every reference value that matches a date shape and
\* parses, valuesEquivalent(cell, reference) is true for the cell that holds
\* the serial number of its date (whole or with a fractional time part, in
\* [1, 2958465]) and for the cell that holds the reference text itself; a cell
\* that holds the same date as text in another format does not match, and a
\* reference that parses without matching a shape matches no serial number.
C19_SerialOrSameText ==
  \A p \in Procs :
    Scanned(p)
    => LET cell == ScannedCell(p)
           ref == im[p].reference_value
           serial == ReferenceSerial(ref)
           same == ReferenceDate(ref) # <<>> /\ CellDate(cell) = ReferenceDate(ref)
       IN /\ (serial.ok /\ serial.m >= 1
                /\ cell \in {IntV(serial.m), FloatV(serial.m * 10 + 5, 1), Text(ref)})
             => Matched(p)
          /\ (same /\ cell.tag = "text" /\ cell # Text(ref)) => ~Matched(p)
          /\ (same /\ cell.tag = "int" /\ ~serial.ok) => ~Matched(p)

\* the lookup of "2025-12-22" has found the cell that holds the text "2025-12-22",
\* and in another run the cell that holds the serial 46013
C19_Witness ==
  /\ Scanned("p1")
  /\ im["p1"].reference_value = TxtIsoDate
  /\ ScannedCell("p1") \in {Text(TxtIsoDate), IntV(46013)}
  /\ im["p1"].found_row = 2
  /\ tl["p1"].pc = "done"

\* C20: valuesEquivalent(cell, ref) is false for a null cell and otherwise true
\* exactly when (a) the string forms are equal, or (b) ref matches a date shape
\* and parses, cell coerces to a number in [1, 2958465] and floor(cell) is the
\* serial of ref's date, or (c) both coerce to numbers that are equal.  So
\* ("TRD-001", "TRD-001") is true, (100, "99") is false, a serial with a
\* fractional time part matches its date, and a number outside [1, 2958465]
\* never matches through the date tier.
C20_ThreeTiers ==
  \A p \in Procs :
    Scanned(p)
    => LET cell == ScannedCell(p)
           ref == im[p].reference_value
           n == CellNumber(cell)
           serial == ReferenceSerial(ref)
           r == ReferenceNumber(ref)
           floor == n.m \div Pow10(n.k)
           strings == StringForm(cell) = ref
           dates == /\ serial.ok /\ n.ok
                    /\ n.m >= 1 * Pow10(n.k) /\ n.m <= 2958465 * Pow10(n.k)
                    /\ floor = serial.m
           numbers == n.ok /\ r.ok /\ n.m * Pow10(r.k) = r.m * Pow10(n.k)
       IN /\ Matched(p) <=> (cell # Null /\ (strings \/ dates \/ numbers))
          /\ (cell = Text(TxtTrade1) /\ ref = TxtTrade1) => Matched(p)
          /\ (cell = IntV(100) /\ ref = Txt99) => ~Matched(p)
          /\ (cell = FloatV(460135, 1) /\ ref \in {TxtDate1, TxtIsoDate, TxtDmyDate}) => Matched(p)
          /\ (cell \in {IntV(0), FloatV(5, 1), IntV(2958466)} /\ serial.ok) => ~Matched(p)

\* the lookup of "12/22/2025" has found the cell 46013.5
C20_Witness ==
  /\ Scanned("p1")
  /\ ScannedCell("p1") = FloatV(460135, 1)
  /\ im["p1"].reference_value = TxtDate1
  /\ im["p1"].found_row = 2
  /\ tl["p1"].pc = "done"
  /\ tl["p1"].response.status = "success"

\* the date <<y, m, d>> of a parse result, <<>> for NotADate
Ymd(dt) == IF dt.ok THEN <<dt.y, dt.m, dt.d>> ELSE <<>>

\* C23: parseDate tries MM/DD/YYYY, YYYY-MM-DD, DD-MM-YYYY, MM-DD-YYYY and
\* YYYY/MM/DD in that order and returns the first successful parse:
\* "12/22/2025", "2025-12-22" and "22-12-2025" all give 2025-12-22, a
\* dash-separated a-b-YYYY with a <= 12 and b <= 12 is day a of month b, and a
\* text that matches no format gives NotADate.
C23_FirstFormatWins ==
  \A p \in Procs :
    (tl[p].kind = "update" /\ im[p].pc # "idle")
    => LET ref == im[p].reference_value
           parsed == Ymd(parse_date_string(ref))
       IN /\ parsed = ParsedDate(ref)
          /\ ref \in {TxtDate1, TxtIsoDate, TxtDmyDate, TxtMdyDate, TxtYmdSlash} => parsed = <<2025, 12, 22>>
          /\ ref = TxtDmyJune5 => parsed = <<2025, 6, 5>>
          /\ ref \in {TxtNoSuchDay, TxtFeb30, TxtTrade1, TxtSerial} => parsed = <<>>
          /\ (Scanned(p) /\ ref = TxtDmyJune5 /\ ScannedCell(p) = IntV(45813)) => Matched(p)
          /\ (Scanned(p) /\ ref = TxtDmyJune5 /\ ScannedCell(p) = IntV(45783)) => ~Matched(p)

\* the lookup of "05-06-2025" has found the serial of 5 June 2025
C23_Witness ==
  /\ Scanned("p1")
  /\ im["p1"].reference_value = TxtDmyJune5
  /\ ScannedCell("p1") = IntV(45813)
  /\ im["p1"].found_row = 2

\* logTrades has derived its reference date from the numeric cell of row 2
DerivedFromSerial(p) ==
  /\ tl[p].kind = "log"
  /\ tl[p].last_date_row = 2
  /\ sheet[2][<<"C">>].tag \in {"int", "float"}

\* C25: for every date D from 1900-01-01 to 9999-12-31,
\* serialToDate(dateToSerial(D)) = D, and serialToDate truncates a fractional
\* serial to its whole day.
C25_SerialRoundTrip ==
  \A p \in Procs :
    /\ (tl[p].kind = "update" /\ im[p].pc # "idle" /\ ParsedDate(im[p].reference_value) # <<>>
          /\ ParsedDate(im[p].reference_value)[1] >= 1900)
       => LET D == parse_date_string(im[p].reference_value)
              serial == date_to_excel_serial(D)
          IN /\ excel_serial_to_date(Number(serial, 0)) = D
             /\ excel_serial_to_date(Number(serial * 100 + 75, 2)) = D
             /\ (Scanned(p) /\ ScannedCell(p).tag = "int" /\ is_likely_date_string(im[p].reference_value))
                => (Matched(p) <=> CellDate(ScannedCell(p)) = Ymd(D))
    /\ DerivedFromSerial(p)
       => LET cell == sheet[2][<<"C">>]
              D == parse_date_string(tl[p].reference_date)
          IN /\ Ymd(D) = CellDate(cell)
             /\ date_to_excel_serial(D) = CellNumber(cell).m \div Pow10(CellNumber(cell).k)
             /\ excel_serial_to_date(Number(date_to_excel_serial(D), 0)) = D

\* the reference date "02/29/2000" was derived from the serial 36585.75
C25_Witness ==
  /\ DerivedFromSerial("p1")
  /\ sheet[2][<<"C">>] = FloatV(3658575, 2)
  /\ tl["p1"].reference_date = TxtLeapDay2000
  /\ tl["p1"].pc = "done"

(***************************************************************************)
(* Properties of the Strategy Code Mapper, on the strategy of the trade    *)
(* whose values array logTrades has built                                  *)
(***************************************************************************)
\* slot p holds the values array of a trade that names a strategy
Mapped(p) ==
  /\ tl[p].kind = "log"
  /\ tl[p].i = 1
  /\ tl[p].trades[1]["strategy"].tag = "text"
  /\ tl[p].trades[1]["strategy"].s \in TxtStrategies

\* the strategy given and the code written for it
GivenStrategy(p) == tl[p].trades[1]["strategy"].s
WrittenStrategy(p) == tl[p].values[5].s

\* C21: the strategy mapping fixes canonical codes and is idempotent: for
\* every canonical code C, mapStrategyName(C) = C, and for every input x,
\* mapStrategyName(mapStrategyName(x)) = mapStrategyName(x).
C21_IdempotentFixesCodes ==
  \A p \in Procs :
    Mapped(p)
    => /\ GivenStrategy(p) \in short_codes => WrittenStrategy(p) = GivenStrategy(p)
       /\ map_strategy_name(WrittenStrategy(p)) = WrittenStrategy(p)
       /\ \/ WrittenStrategy(p) = GivenStrategy(p)
          \/ WrittenStrategy(p) \in TxtStrategies

\* the code "IC" was given and written, and in another run "iron condor" gave "IC"
C21_Witness ==
  /\ Mapped("p1")
  /\ GivenStrategy("p1") \in {<<"I", "C">>, <<"i", "r", "o", "n", " ", "c", "o", "n", "d", "o", "r">>}
  /\ WrittenStrategy("p1") = <<"I", "C">>
  /\ tl["p1"].pc = "await"

\* C22: mapStrategyName resolves case-insensitively, first hit wins: a
\* canonical code (in canonical casing), then an exact key of the verbose
\* table, then the first rule of the keyword list all of whose keywords are
\* substrings of the input; the list holds every three-keyword rule before
\* every two-keyword rule before every single-keyword rule; an input that
\* matches no stage is returned unchanged.  "put credit spread" gives "VPCS"
\* and "totally unknown strategy" is returned as it is.
C22_StagesInOrder ==
  \A p \in Procs :
    Mapped(p)
    => LET x == GivenStrategy(p)
           y == WrittenStrategy(p)
           key == Strip(Lower(x))
           codeHit == {c \in short_codes : Lower(c) = key}
           exactHit == {i \in 1..Len(STRATEGY_MAPPING) : STRATEGY_MAPPING[i].key = key}
           ruleHit == {i \in 1..Len(STRATEGY_KEYWORDS) :
                         \A j \in 1..Len(STRATEGY_KEYWORDS[i].keywords) :
                           IsSubstring(STRATEGY_KEYWORDS[i].keywords[j], key)}
       IN /\ IF codeHit # {} THEN y \in codeHit
             ELSE IF exactHit # {} THEN \A i \in exactHit : y = STRATEGY_MAPPING[i].code
             ELSE IF ruleHit # {}
             THEN \E i \in ruleHit : /\ \A j \in ruleHit : i <= j
                                     /\ y = STRATEGY_KEYWORDS[i].code
             ELSE y = x
          /\ \A i \in 1..Len(STRATEGY_KEYWORDS) : \A j \in (i + 1)..Len(STRATEGY_KEYWORDS) :
               /\ Len(STRATEGY_KEYWORDS[i].keywords) >= Len(STRATEGY_KEYWORDS[j].keywords)
               /\ Len(STRATEGY_KEYWORDS[i].keywords) \in 1..3
          /\ x = TxtPutCreditSpread => y = <<"V", "P", "C", "S">>
          /\ x = <<"P", "U", "T", " ", "C", "R", "E", "D", "I", "T", " ", "S", "P", "R", "E", "A", "D">>
               => y = <<"V", "P", "C", "S">>
          /\ x = <<"b", "r", "o", "k", "e", "n", " ", "w", "i", "n", "g", " ", "c", "o", "n", "d", "o", "r">>
               => y = <<"I", "C">>
          /\ x = <<"t", "o", "t", "a", "l", "l", "y", " ", "u", "n", "k", "n", "o", "w", "n", " ",
                   "s", "t", "r", "a", "t", "e", "g", "y">> => y = x

\* "my naked put trade" was resolved by the keyword stage to "NP"
C22_Witness ==
  /\ Mapped("p1")
  /\ GivenStrategy("p1") = <<"m", "y", " ", "n", "a", "k", "e", "d", " ", "p", "u", "t", " ",
                             "t", "r", "a", "d", "e">>
  /\ WrittenStrategy("p1") = <<"N", "P">>

\* a verbose name with words around it
Surrounded(key) == <<"m", "y", " ">> \o key \o <<" ", "t", "r", "a", "d", "e">>

\* C30: the exact table and the keyword rules agree: for every key of the
\* verbose table that some keyword rule matches, the first matching rule
\* yields the code the table gives, so a verbose name with surrounding words
\* gets the code of the verbose name.
C30_TableAndRulesAgree ==
  \A p \in Procs :
    Mapped(p)
    => \A i \in 1..Len(STRATEGY_MAPPING) :
         (/\ GivenStrategy(p) = Surrounded(STRATEGY_MAPPING[i].key)
          /\ \E r \in 1..Len(STRATEGY_KEYWORDS) :
               \A j \in 1..Len(STRATEGY_KEYWORDS[r].keywords) :
                 IsSubstring(STRATEGY_KEYWORDS[r].keywords[j], STRATEGY_MAPPING[i].key))
         => WrittenStrategy(p) = STRATEGY_MAPPING[i].code

(***************************************************************************)
(* Properties of the rows of one excel.logTrades batch                     *)
(***************************************************************************)
\* the lookup of slot p has just located its row for the current trade
Located(p) ==
  /\ tl[p].kind = "log"
  /\ im[p].pc = "write"
  /\ im[p].k = 0

\* C27: within one logTrades invocation with no other writer, the anchor row
\* located for every trade is the same row: the writes of earlier trades into
\* column C never change the row that the lookup of a later trade returns, so
\* the n trades target the consecutive rows anchor + 1 .. anchor + n.
C27_SameAnchorForEveryTrade ==
  \A p \in Procs :
    Located(p)
    => /\ im[p].target_row = im[p].found_row + tl[p].i
       /\ \A j \in 1..Len(calls[p]) :
            calls[p][j].kind = "write"
            => AddrRow(calls[p][j].addr) = im[p].found_row + calls[p][j].trade

\* the second trade is located after the first wrote the reference date
\* itself into column C of the row below the anchor
C27_Witness ==
  /\ Located("p1")
  /\ tl["p1"].i = 2
  /\ im["p1"].found_row = 2
  /\ im["p1"].target_row = 4
  /\ Len(sheet) >= 3
  /\ sheet[3][<<"C">>] = Text(tl["p1"].reference_date)

\* the trades that the response of slot p lists in results / in errors
ListedInResults(p) ==
  {tl[p].response.results[k].trade_index : k \in 1..Len(tl[p].response.results)}

ListedInErrors(p) ==
  {tl[p].response.errors[k].trade_index : k \in 1..Len(tl[p].response.errors)}

\* the trades of slot p with a rejected cell write
Rejected(p) ==
  {calls[p][j].trade : j \in {i \in 1..Len(calls[p]) :
                                 calls[p][i].kind = "write" /\ calls[p][i].outcome = "rejected"}}

\* C28: logTrades lists a trade in results exactly when all 13 of its cell
\* writes succeeded; a trade with at least one rejected cell write is listed
\* in errors although its other cells stay written.
C28_ResultsIffAllWritten ==
  \A p \in Procs :
    (tl[p].kind = "log" /\ tl[p].pc = "done")
    => /\ ListedInResults(p) = Succeeded(p)
       /\ Rejected(p) \subseteq ListedInErrors(p)

\* the anchor derivation of slot p succeeded and a lookup has scanned column C
DerivedAndScanned(p) ==
  /\ tl[p].kind = "log"
  /\ tl[p].derived
  /\ tl[p].last_date_row > 0
  /\ im[p].column_values # <<>>

\* C29: when referenceDate is omitted and the anchor derivation succeeds on a
\* cell of column C, the lookup run for each trade with the derived reference
\* date always finds a row, at or above the cell the reference was derived
\* from, for a numeric serial cell (with or without fraction) and for a
\* date-text cell.
C29_DerivedReferenceFound ==
  \A p \in Procs :
    DerivedAndScanned(p)
    => /\ im[p].found_row >= 1
       /\ im[p].found_row <= tl[p].last_date_row
       /\ im[p].result.reason # "not_found"

\* the reference derived from the fractional serial of row 2 is found in row 1
C29_Witness ==
  /\ DerivedAndScanned("p1")
  /\ tl["p1"].last_date_row = 2
  /\ sheet[1][<<"C">>] = IntV(46013)
  /\ tl["p1"].i = 2
  /\ im["p1"].found_row = 1
  /\ im["p1"].pc = "return"
  /\ im["p1"].result.status = "success"

(***************************************************************************)
(* Two excel.logTrades invocations in flight on one sheet: the handlers    *)
(* are coroutines, and each awaited store request lets the other one run   *)
(***************************************************************************)
\* one invocation per slot, on a sheet whose last date is in row 2; the store
\* answers every request
InitConcurrent ==
  /\ sheet = SheetOfColumnC(<<Text(TxtTrade1), IntV(46013)>>)
  /\ tl = [p \in Procs |-> ToolIdle]
  /\ im = [p \in Procs |-> ImplIdle]
  /\ calls = [p \in Procs |-> <<>>]
  /\ hist = {}
  /\ budget = 0
  /\ invLeft = Cardinality(Procs)

NextConcurrent ==
  \/ LogInvoke("p1", AppendTradeInputs, {<<>>})
  \/ LogStep("p1")
  \/ ImplStep("p1")
  \/ LogInvoke("p2", AppendTradeInputs, {<<>>})
  \/ LogStep("p2")
  \/ ImplStep("p2")

SpecConcurrent == InitConcurrent /\ [][NextConcurrent]_vars

\* both slots have run a logTrades invocation to its end
BothFinished ==
  \A p \in Procs : tl[p].kind = "log" /\ tl[p].pc = "done"

\* row r holds, in the 13 columns, the values of the trade of slot p
HoldsTradeOf(p, r) ==
  /\ Len(tl[p].values) = Len(COLUMN_ORDER)
  /\ \A k \in 1..Len(COLUMN_ORDER) : sheet[r][COLUMN_ORDER[k]] = tl[p].values[k]

\* C26: two logTrades invocations whose store calls interleave on the same
\* sheet never write cells of different trades into the same row: after both
\* finish, every row written holds the 13 cells of a single trade.
C26_NoRowMixesTwoTrades ==
  BothFinished
  => \A h \in hist :
       (\A p \in Procs : tl[p].response.status = "success")
       => \E p \in Procs : HoldsTradeOf(p, h.row)

(***************************************************************************)
(* excel.updateRange, and the three tools invoked one after the other      *)
(***************************************************************************)
\* lines 782-882: the values argument is parsed and checked to be a list of
\* lists, the document is resolved and the range is written by one request;
\* every exit is a result with a status
UpdateRange(p) ==
  LET address == <<"E", "2">>
      Row(items) == [tag |-> "list", items |-> items]
      inputs == {JsonBad, JsonNotList, JsonList(<<IntV(7)>>), JsonList(<<Row(<<IntV(7)>>)>>)}
      start == [ToolIdle EXCEPT !.kind = "range", !.inv = invLeft]
      Answer(t, status, reason) ==
        [t EXCEPT !.pc = "done",
                  !.response = [NoResponse EXCEPT !.status = status, !.reason = reason]]
  IN \/ /\ tl[p].pc \in {"idle", "done"}
        /\ invLeft > 0
        /\ invLeft' = invLeft - 1
        /\ calls' = [calls EXCEPT ![p] = <<>>]
        /\ im' = [im EXCEPT ![p] = ImplIdle]
        /\ \E values \in inputs :
             tl' = [tl EXCEPT ![p] =
                      IF values.json = "bad" THEN Answer(start, "error", "bad_json")
                      ELSE IF \/ values.json # "list"
                              \/ \E k \in 1..Len(values.list) : values.list[k].tag # "list"
                      THEN Answer(start, "error", "not_2d")
                      ELSE [start EXCEPT !.pc = "range_resolve", !.input = values.list]]
        /\ UNCHANGED <<sheet, hist, budget>>
     \/ /\ tl[p].kind = "range"
        /\ tl[p].pc = "range_resolve"
        /\ \/ /\ Issue(p, "resolve", <<>>, "ok")
              /\ tl' = [tl EXCEPT ![p].pc = "range_patch"]
              /\ UNCHANGED budget
           \/ /\ Fault
              /\ Issue(p, "resolve", <<>>, "rejected")
              /\ tl' = [tl EXCEPT ![p] = Answer(tl[p], "error", "resolve")]
        /\ UNCHANGED <<sheet, im, hist, invLeft>>
     \/ /\ tl[p].kind = "range"
        /\ tl[p].pc = "range_patch"
        /\ \/ /\ Issue(p, "write", address, "ok")
              /\ sheet' = WriteCell(sheet, address, tl[p].input[1].items[1])
              /\ tl' = [tl EXCEPT ![p] = Answer(tl[p], "success", "updated")]
              /\ UNCHANGED budget
           \/ /\ Fault
              /\ Issue(p, "write", address, "rejected")
              /\ tl' = [tl EXCEPT ![p] = Answer(tl[p], "error", "rejected")]
              /\ UNCHANGED sheet
           \/ /\ Fault
              /\ Issue(p, "write", address, "transport")
              /\ tl' = [tl EXCEPT ![p] = Answer(tl[p], "error", "exception")]
              /\ \/ UNCHANGED sheet
                 \/ sheet' = WriteCell(sheet, address, tl[p].input[1].items[1])
        /\ UNCHANGED <<im, hist, invLeft>>

NextTools ==
  \/ UpdateInvokeWith("p1", {<<<<"E">>>>}, {<<IntV(7)>>, <<>>}, {TxtDate1, TxtAbsent}, {0})
  \/ UpdateReturn("p1")
  \/ UpdateRange("p1")
  \/ LogInvoke("p1", {JsonBad, JsonNotList, JsonList(<<TradeDec22>>),
                      JsonList(<<Trade([open_date |-> IntV(46013)])>>),
                      JsonList(<<Trade([open_date |-> Text(TxtJan2), strategy |-> IntV(7)])>>)},
               {<<>>, TxtJan5})
  \/ LogStep("p1")
  \/ ImplStep("p1")

SpecTools == InitAppend /\ [][NextTools]_vars

\* the values of the status field of a tool result
StatusValues == {"success", "partial_error", "partial_success", "warning", "error"}

\* a store call of the invocation of slot p ended with the given outcome
FailedCall(p, outcome) ==
  \E j \in 1..Len(calls[p]) : calls[p][j].outcome = outcome

\* C24: every failure path of the three tools (malformed or non-array JSON,
\* document resolution failure, store rejection, transport error, unexpected
\* exception) ends with a structured result carrying a status field; no
\* exception propagates past the tool boundary.
C24_EveryFailureStructured ==
  \A p \in Procs :
    /\ tl[p].pc = "done"
       => /\ tl[p].response.status \in StatusValues
          /\ tl[p].response.reason \in {"bad_json", "not_2d", "exception", "resolve"}
             => tl[p].response.status = "error"
          /\ FailedCall(p, "transport")
             => tl[p].response.status = "error" /\ tl[p].response.reason = "exception"
          /\ FailedCall(p, "rejected") => tl[p].response.status # "success"
    /\ (im[p].pc = "raised" /\ tl[p].pc # "done")
       => ENABLED (UpdateReturn(p) \/ LogAfterImpl(p))

\* updateRowByLookup has answered after a store request of its lookup raised
C24_Witness ==
  /\ tl["p1"].kind = "update"
  /\ tl["p1"].pc = "done"
  /\ im["p1"].pc = "raised"
  /\ FailedCall("p1", "transport")
  /\ tl["p1"].response.status = "error"
====
